---------------------------- MODULE Spec2Model ----------------------------
(***************************************************************************)
(* A model of the QR code generator component                              *)
(* (src/src/app/components/QRCodeGenerator.tsx, the component defined at   *)
(* lines 987-1917).                                                        *)
(*                                                                         *)
(* JavaScript strings are modelled as sequences of one-character strings,  *)
(* so that prefixing, trimming, regular-expression tests and JSON parsing  *)
(* are computed character by character, as the code computes them.         *)
(***************************************************************************)
EXTENDS Integers, Sequences, FiniteSets, TLC

(***************************************************************************)
(* Bounds of the model.                                                    *)
(***************************************************************************)
\* Longest batchEntries list the model lets the user build.
MaxEntries == 2
\* Inputs of the pure functions are concatenations of at most MaxFrags
\* fragments of one fragment family.
MaxFrags == 2
\* The model follows the component through at most MaxEvents user events
\* (clicks and key strokes); the encoder's answers are not counted.
MaxEvents == 8
\* Most lines of an uploaded text file.
MaxLines == 5
\* Most rows of the first sheet of an uploaded spreadsheet.
MaxRows == 2
\* Most pixels of a canvas given to convertCanvasToEPS.
MaxPixels == 4
\* Most codes of a batch whose archive is downloaded.
MaxCodes == 2

(***************************************************************************)
(* Characters and strings.                                                 *)
(***************************************************************************)
\* JavaScript white space (\s, String.prototype.trim) among the characters
\* the model uses.
WhiteSpace == {" ", "\t", "\n", "\r"}

IsSpace(c) == c \in WhiteSpace

Digits == {"0", "1", "2", "3", "4", "5", "6", "7", "8", "9"}

IsDigit(c) == c \in Digits

DigitChars == <<"0", "1", "2", "3", "4", "5", "6", "7", "8", "9">>

UpperChars == <<"A", "B", "C", "D", "E", "F", "G", "H", "I", "J", "K", "L", "M",
                "N", "O", "P", "Q", "R", "S", "T", "U", "V", "W", "X", "Y", "Z">>

LowerChars == <<"a", "b", "c", "d", "e", "f", "g", "h", "i", "j", "k", "l", "m",
                "n", "o", "p", "q", "r", "s", "t", "u", "v", "w", "x", "y", "z">>

\* The lower-case form of one character (the i flag of a regular expression
\* compares characters by their case-folded form).
LowerChar(c) ==
    IF \E i \in 1..Len(UpperChars) : UpperChars[i] = c
    THEN LowerChars[CHOOSE i \in 1..Len(UpperChars) : UpperChars[i] = c]
    ELSE c

\* s.toLowerCase(), for the letters of the model.
Lowered(s) == [i \in 1..Len(s) |-> LowerChar(s[i])]

\* s.startsWith(p)
StartsWith(s, p) ==
    /\ Len(s) >= Len(p)
    /\ \A i \in 1..Len(p) : s[i] = p[i]

\* s matches /^p/i for a literal p
StartsWithCI(s, p) ==
    /\ Len(s) >= Len(p)
    /\ \A i \in 1..Len(p) : LowerChar(s[i]) = LowerChar(p[i])

\* s.endsWith(p)
EndsWith(s, p) ==
    /\ Len(s) >= Len(p)
    /\ \A i \in 1..Len(p) : s[Len(s) - Len(p) + i] = p[i]

\* s.includes(p)
Includes(s, p) ==
    \E k \in 0..(Len(s) - Len(p)) : \A i \in 1..Len(p) : s[k + i] = p[i]

\* s.trim()
Trim(s) ==
    IF \A i \in 1..Len(s) : IsSpace(s[i])
    THEN << >>
    ELSE LET first == CHOOSE i \in 1..Len(s) :
                         /\ ~IsSpace(s[i])
                         /\ \A j \in 1..(i - 1) : IsSpace(s[j])
             last  == CHOOSE i \in 1..Len(s) :
                         /\ ~IsSpace(s[i])
                         /\ \A j \in (i + 1)..Len(s) : IsSpace(s[j])
         IN  SubSeq(s, first, last)


\* The concatenation of the strings of a sequence of strings.
RECURSIVE Concat(_)
Concat(parts) ==
    IF parts = << >> THEN << >> ELSE Head(parts) \o Concat(Tail(parts))

\* The decimal numeral of a natural number.
RECURSIVE NatToString(_)
NatToString(n) ==
    IF n < 10 THEN <<DigitChars[n + 1]>>
    ELSE NatToString(n \div 10) \o <<DigitChars[(n % 10) + 1]>>

\* The value of a digit character.
DigitValue(c) == (CHOOSE i \in 1..10 : DigitChars[i] = c) - 1

\* The natural number a sequence of digits writes.
RECURSIVE StringToNat(_)
StringToNat(ds) ==
    IF ds = << >> THEN 0
    ELSE 10 * StringToNat(SubSeq(ds, 1, Len(ds) - 1)) + DigitValue(ds[Len(ds)])

\* n copies of the character c.
Repeat(c, n) == [i \in 1..n |-> c]

(***************************************************************************)
(* JSON.parse, the built-in the wifi case of formatContentByType calls.    *)
(* The grammar is that of ECMA-404 over the characters of the model; the   *)
(* model's inputs hold no backslash, so a string has no escape sequences.  *)
(* A parsed value is a record tagged by its JavaScript type.               *)
(***************************************************************************)
JNull == [t |-> "null"]

JUndefined == [t |-> "undefined"]

JBool(b) == [t |-> "bool", b |-> b]

JStr(s) == [t |-> "str", s |-> s]

\* A number keeps its numeral: sign, integer digits, fraction digits and
\* decimal exponent.
JNum(neg, int, frac, exp) ==
    [t |-> "num", neg |-> neg, int |-> int, frac |-> frac, exp |-> exp]

JArr(elems) == [t |-> "arr", elems |-> elems]

\* members: the name/value pairs in source order.
JObj(members) == [t |-> "obj", members |-> members]

ParseFail == [ok |-> FALSE]

ParseOk(v, pos) == [ok |-> TRUE, val |-> v, pos |-> pos]

\* The characters JSON allows between tokens.
JsonWhiteSpace == {" ", "\t", "\n", "\r"}

\* The characters a JSON string may not hold unescaped, among the model's.
JsonControlChars == {"\t", "\n", "\r"}

\* The first position at or after i that holds no JSON white space.
SkipWs(s, i) ==
    CHOOSE j \in i..(Len(s) + 1) :
        /\ \A k \in i..(j - 1) : s[k] \in JsonWhiteSpace
        /\ (j <= Len(s) => s[j] \notin JsonWhiteSpace)

\* The first position at or after i that holds no digit.
DigitRunEnd(s, i) ==
    CHOOSE j \in i..(Len(s) + 1) :
        /\ \A k \in i..(j - 1) : IsDigit(s[k])
        /\ (j <= Len(s) => ~IsDigit(s[j]))

\* Whether the literal lit stands at position i of s.
LiteralAt(s, i, lit) ==
    /\ i + Len(lit) - 1 <= Len(s)
    /\ \A k \in 1..Len(lit) : s[i + k - 1] = lit[k]

\* A JSON string starting at the quote at position i.
ParseString(s, i) ==
    IF ~(i <= Len(s) /\ s[i] = "\"") THEN ParseFail
    ELSE IF ~(\E j \in (i + 1)..Len(s) : s[j] = "\"") THEN ParseFail
    ELSE LET close == CHOOSE j \in (i + 1)..Len(s) :
                          /\ s[j] = "\""
                          /\ \A k \in (i + 1)..(j - 1) : s[k] # "\""
             chars == SubSeq(s, i + 1, close - 1)
         IN  IF \E k \in 1..Len(chars) : chars[k] \in JsonControlChars \cup {"\\"}
             THEN ParseFail
             ELSE ParseOk(JStr(chars), close + 1)

\* A JSON number starting at position i:
\* -?(0|[1-9][0-9]*)(\.[0-9]+)?([eE][+-]?[0-9]+)?
ParseNumber(s, i) ==
    LET neg      == i <= Len(s) /\ s[i] = "-"
        intStart == IF neg THEN i + 1 ELSE i
        intEnd   == IF intStart <= Len(s) /\ s[intStart] = "0"
                    THEN intStart + 1
                    ELSE DigitRunEnd(s, intStart)
        hasFrac  == intEnd <= Len(s) /\ s[intEnd] = "."
        fracEnd  == IF hasFrac THEN DigitRunEnd(s, intEnd + 1) ELSE intEnd
        hasExp   == fracEnd <= Len(s) /\ s[fracEnd] \in {"e", "E"}
        hasSign  == hasExp /\ fracEnd + 1 <= Len(s) /\ s[fracEnd + 1] \in {"+", "-"}
        expStart == IF hasSign THEN fracEnd + 2 ELSE fracEnd + 1
        expEnd   == IF hasExp THEN DigitRunEnd(s, expStart) ELSE fracEnd
        expAbs   == IF hasExp THEN StringToNat(SubSeq(s, expStart, expEnd - 1)) ELSE 0
        expVal   == IF hasSign /\ s[fracEnd + 1] = "-" THEN 0 - expAbs ELSE expAbs
    IN  IF intEnd = intStart THEN ParseFail
        ELSE IF hasFrac /\ fracEnd = intEnd + 1 THEN ParseFail
        ELSE IF hasExp /\ expEnd = expStart THEN ParseFail
        ELSE ParseOk(JNum(neg,
                          SubSeq(s, intStart, intEnd - 1),
                          IF hasFrac THEN SubSeq(s, intEnd + 1, fracEnd - 1) ELSE << >>,
                          expVal),
                     expEnd)

RECURSIVE ParseValue(_, _)
RECURSIVE ParseMembers(_, _, _)
RECURSIVE ParseElements(_, _, _)

\* The members of an object from position i (a member name is expected
\* there), after the members acc.
ParseMembers(s, i, acc) ==
    LET key == ParseString(s, i)
    IN  IF ~key.ok THEN ParseFail
        ELSE LET colon == SkipWs(s, key.pos)
             IN  IF ~(colon <= Len(s) /\ s[colon] = ":") THEN ParseFail
                 ELSE LET v == ParseValue(s, SkipWs(s, colon + 1))
                      IN  IF ~v.ok THEN ParseFail
                          ELSE LET next == SkipWs(s, v.pos)
                                   all  == Append(acc, [k |-> key.val.s, v |-> v.val])
                               IN  IF next > Len(s) THEN ParseFail
                                   ELSE IF s[next] = "}" THEN ParseOk(JObj(all), next + 1)
                                   ELSE IF s[next] = ","
                                        THEN ParseMembers(s, SkipWs(s, next + 1), all)
                                   ELSE ParseFail

\* The elements of an array from position i, after the elements acc.
ParseElements(s, i, acc) ==
    LET v == ParseValue(s, i)
    IN  IF ~v.ok THEN ParseFail
        ELSE LET next == SkipWs(s, v.pos)
                 all  == Append(acc, v.val)
             IN  IF next > Len(s) THEN ParseFail
                 ELSE IF s[next] = "]" THEN ParseOk(JArr(all), next + 1)
                 ELSE IF s[next] = "," THEN ParseElements(s, SkipWs(s, next + 1), all)
                 ELSE ParseFail

\* The JSON value starting at position i (white space already skipped).
ParseValue(s, i) ==
    IF i > Len(s) THEN ParseFail
    ELSE IF s[i] = "{"
         THEN LET j == SkipWs(s, i + 1)
              IN  IF j <= Len(s) /\ s[j] = "}" THEN ParseOk(JObj(<< >>), j + 1)
                  ELSE ParseMembers(s, j, << >>)
    ELSE IF s[i] = "["
         THEN LET j == SkipWs(s, i + 1)
              IN  IF j <= Len(s) /\ s[j] = "]" THEN ParseOk(JArr(<< >>), j + 1)
                  ELSE ParseElements(s, j, << >>)
    ELSE IF s[i] = "\"" THEN ParseString(s, i)
    ELSE IF s[i] = "-" \/ IsDigit(s[i]) THEN ParseNumber(s, i)
    ELSE IF LiteralAt(s, i, <<"n", "u", "l", "l">>) THEN ParseOk(JNull, i + 4)
    ELSE IF LiteralAt(s, i, <<"t", "r", "u", "e">>) THEN ParseOk(JBool(TRUE), i + 4)
    ELSE IF LiteralAt(s, i, <<"f", "a", "l", "s", "e">>) THEN ParseOk(JBool(FALSE), i + 5)
    ELSE ParseFail

\* JSON.parse(s): the value of the whole text, or a SyntaxError (ok FALSE).
JSONParse(s) ==
    LET Whole(v) == IF v.ok /\ SkipWs(s, v.pos) = Len(s) + 1
                    THEN [ok |-> TRUE, val |-> v.val]
                    ELSE ParseFail
    IN  Whole(ParseValue(s, SkipWs(s, 1)))

(***************************************************************************)
(* The JavaScript operations formatContentByType applies to the parsed     *)
(* value: property access, the || operator and template-literal            *)
(* conversion to a string.                                                 *)
(***************************************************************************)
\* value.name for a parsed value other than null: the value of the last
\* member of that name of an object, undefined for an object without it and
\* for a number, string, boolean or array (none of these has a property
\* named ssid, password or encryption).
GetProperty(value, name) ==
    IF value.t = "obj" /\ \E i \in 1..Len(value.members) : value.members[i].k = name
    THEN LET last == CHOOSE i \in 1..Len(value.members) :
                         /\ value.members[i].k = name
                         /\ \A j \in (i + 1)..Len(value.members) :
                                value.members[j].k # name
         IN  value.members[last].v
    ELSE JUndefined

\* Whether a number is zero (its exponent does not matter).
IsZero(num) ==
    /\ \A i \in 1..Len(num.int) : num.int[i] = "0"
    /\ \A i \in 1..Len(num.frac) : num.frac[i] = "0"

\* ToBoolean: undefined, null, false, 0 and "" are falsy.
Truthy(value) ==
    CASE value.t = "undefined" -> FALSE
      [] value.t = "null"      -> FALSE
      [] value.t = "bool"      -> value.b
      [] value.t = "num"       -> ~IsZero(value)
      [] value.t = "str"       -> value.s # << >>
      [] OTHER                 -> TRUE

\* s without its leading zeros.
StripLeadingZeros(s) ==
    IF \A i \in 1..Len(s) : s[i] = "0" THEN << >>
    ELSE SubSeq(s, CHOOSE i \in 1..Len(s) :
                       s[i] # "0" /\ \A j \in 1..(i - 1) : s[j] = "0", Len(s))

\* s without its trailing zeros.
StripTrailingZeros(s) ==
    IF \A i \in 1..Len(s) : s[i] = "0" THEN << >>
    ELSE SubSeq(s, 1, CHOOSE i \in 1..Len(s) :
                          s[i] # "0" /\ \A j \in (i + 1)..Len(s) : s[j] = "0")

\* Number::toString of a parsed number, exact for numerals of at most 15
\* significant digits within the range of a double: with k significant
\* digits and the decimal point n places after the first of them, the
\* digits padded with zeros (k <= n <= 21), the digits with a point
\* (0 < n <= 21), 0.00ddd (-6 < n <= 0), or exponential notation.
NumberToString(num) ==
    LET all    == num.int \o num.frac
        lead   == Len(all) - Len(StripLeadingZeros(all))
        digits == StripTrailingZeros(StripLeadingZeros(all))
        k      == Len(digits)
        n      == Len(num.int) - lead + num.exp
        e      == n - 1
        sign   == IF num.neg THEN <<"-">> ELSE << >>
        mant   == IF k = 1 THEN digits
                  ELSE <<digits[1], ".">> \o SubSeq(digits, 2, k)
    IN  IF k = 0 THEN <<"0">>
        ELSE IF k <= n /\ n <= 21 THEN sign \o digits \o Repeat("0", n - k)
        ELSE IF 0 < n /\ n <= 21
             THEN sign \o SubSeq(digits, 1, n) \o <<".">> \o SubSeq(digits, n + 1, k)
        ELSE IF -6 < n /\ n <= 0
             THEN sign \o <<"0", ".">> \o Repeat("0", 0 - n) \o digits
        ELSE sign \o mant \o <<"e">>
             \o (IF e < 0 THEN <<"-">> \o NatToString(0 - e)
                 ELSE <<"+">> \o NatToString(e))

\* The string a template literal `${value}` makes of a value.
RECURSIVE TemplateString(_)
RECURSIVE JoinElements(_)
JoinElements(elems) ==
    IF elems = << >> THEN << >>
    ELSE (IF Head(elems).t \in {"null", "undefined"} THEN << >>
          ELSE TemplateString(Head(elems)))
         \o (IF Len(elems) > 1 THEN <<",">> \o JoinElements(Tail(elems)) ELSE << >>)

TemplateString(value) ==
    CASE value.t = "str"       -> value.s
      [] value.t = "num"       -> NumberToString(value)
      [] value.t = "bool"      -> IF value.b THEN <<"t", "r", "u", "e">>
                                  ELSE <<"f", "a", "l", "s", "e">>
      [] value.t = "null"      -> <<"n", "u", "l", "l">>
      [] value.t = "undefined" ->
             <<"u", "n", "d", "e", "f", "i", "n", "e", "d">>
      [] value.t = "arr"       -> JoinElements(value.elems)
      [] OTHER                 ->
             <<"[", "o", "b", "j", "e", "c", "t", " ", "O", "b", "j", "e", "c", "t", "]">>

\* `${value || fallback}`
OrElse(value, fallback) ==
    IF Truthy(value) THEN TemplateString(value) ELSE fallback

(***************************************************************************)
(* formatContentByType and detectContentType.                              *)
(***************************************************************************)
\* type ContentType, and one value outside it for the default branch of the
\* switch.
ContentTypes == {"text", "url", "email", "phone", "sms", "wifi"}

UnknownType == "other"

HttpScheme == <<"h", "t", "t", "p", ":", "/", "/">>

HttpsScheme == <<"h", "t", "t", "p", "s", ":", "/", "/">>

WwwDot == <<"w", "w", "w", ".">>

MailtoScheme == <<"m", "a", "i", "l", "t", "o", ":">>

TelScheme == <<"t", "e", "l", ":">>

SmsScheme == <<"s", "m", "s", ":">>

WpaDefault == <<"W", "P", "A">>

KeyEncryption == <<"e", "n", "c", "r", "y", "p", "t", "i", "o", "n">>

KeySsid == <<"s", "s", "i", "d">>

KeyPassword == <<"p", "a", "s", "s", "w", "o", "r", "d">>

\* A function body's outcome: a returned value or a thrown error.
Return(v) == [threw |-> FALSE, value |-> v]

Throw(e) == [threw |-> TRUE, error |-> e]

\* Variant of MatchesHttpScheme without the i flag: the scheme is matched in
\* lower case only.
MatchesHttpSchemeCaseSensitive(content) ==
    StartsWith(content, HttpScheme) \/ StartsWith(content, HttpsScheme)

\* content.match(/^https?:\/\//i)
MatchesHttpScheme(content) ==
    StartsWithCI(content, HttpScheme) \/ StartsWithCI(content, HttpsScheme)

\* `WIFI:T:${e};S:${s};P:${p};;`
WifiPayload(e, s, p) ==
    <<"W", "I", "F", "I", ":", "T", ":">> \o e \o <<";", "S", ":">> \o s
        \o <<";", "P", ":">> \o p \o <<";", ";">>

\* The try block of the wifi case: JSON.parse throws a SyntaxError on a
\* text that is not JSON, and reading a property of null throws a TypeError.
WifiTry(content) ==
    LET Fields(parsed) ==
            IF ~parsed.ok THEN Throw("SyntaxError")
            ELSE IF parsed.val.t = "null" THEN Throw("TypeError")
            ELSE Return(WifiPayload(
                     OrElse(GetProperty(parsed.val, KeyEncryption), WpaDefault),
                     OrElse(GetProperty(parsed.val, KeySsid), << >>),
                     OrElse(GetProperty(parsed.val, KeyPassword), << >>)))
    IN  Fields(JSONParse(content))

\* Variant of WifiCatch that takes the SyntaxError of JSON.parse only.
WifiCatchSyntaxErrorOnly(attempt, content) ==
    IF attempt.threw /\ attempt.error = "SyntaxError" THEN Return(content)
    ELSE attempt

\* try { ... } catch { return content; }: the catch clause takes every error.
WifiCatch(attempt, content) ==
    IF attempt.threw THEN Return(content) ELSE attempt

\* Variant of formatContentByType that leaves a content alone when it
\* already begins with the scheme of its type.
formatContentByTypeKeepsScheme(content, type) ==
    CASE type = "url"   -> IF ~MatchesHttpScheme(content)
                           THEN Return(HttpsScheme \o content)
                           ELSE Return(content)
      [] type = "email" -> IF StartsWith(content, MailtoScheme) THEN Return(content)
                           ELSE Return(MailtoScheme \o content)
      [] type = "phone" -> IF StartsWith(content, TelScheme) THEN Return(content)
                           ELSE Return(TelScheme \o content)
      [] type = "sms"   -> IF StartsWith(content, SmsScheme) THEN Return(content)
                           ELSE Return(SmsScheme \o content)
      [] type = "wifi"  -> WifiCatch(WifiTry(content), content)
      [] OTHER          -> Return(content)

formatContentByType(content, type) ==
    CASE type = "url"   -> IF ~MatchesHttpScheme(content)
                           THEN Return(HttpsScheme \o content)
                           ELSE Return(content)
      [] type = "email" -> Return(MailtoScheme \o content)
      [] type = "phone" -> Return(TelScheme \o content)
      [] type = "sms"   -> Return(SmsScheme \o content)
      [] type = "wifi"  -> WifiCatch(WifiTry(content), content)
      [] OTHER          -> Return(content)

\* content.match(/^(https?:\/\/|www\.)/i)
LooksLikeUrl(content) ==
    MatchesHttpScheme(content) \/ StartsWithCI(content, WwwDot)

\* [^\s@]
NotSpaceNorAt(c) == ~IsSpace(c) /\ c # "@"

\* content.match(/^[^\s@]+@[^\s@]+\.[^\s@]+$/)
LooksLikeEmail(content) ==
    \E at \in 2..Len(content) : \E dot \in (at + 2)..(Len(content) - 1) :
        /\ content[at] = "@"
        /\ content[dot] = "."
        /\ \A i \in 1..Len(content) : i # at => NotSpaceNorAt(content[i])

\* [0-9\s\(\)\-]
IsPhoneChar(c) == IsDigit(c) \/ IsSpace(c) \/ c \in {"(", ")", "-"}

\* content.match(/^\+?[0-9\s\(\)\-]{8,20}$/)
LooksLikePhone(content) ==
    LET body == IF content # << >> /\ content[1] = "+" THEN Tail(content) ELSE content
    IN  /\ Len(body) >= 8
        /\ Len(body) <= 20
        /\ \A i \in 1..Len(body) : IsPhoneChar(body[i])

\* content.startsWith('{') && content.endsWith('}') && content.includes('ssid')
LooksLikeWifi(content) ==
    /\ StartsWith(content, <<"{">>)
    /\ EndsWith(content, <<"}">>)
    /\ Includes(content, KeySsid)

\* Variant of detectContentType that checks the e-mail shape first.
detectContentTypeEmailFirst(content) ==
    IF LooksLikeEmail(content) THEN "email"
    ELSE IF LooksLikeUrl(content) THEN "url"
    ELSE IF LooksLikePhone(content) THEN "phone"
    ELSE IF LooksLikeWifi(content) THEN "wifi"
    ELSE "text"

detectContentType(content) ==
    IF LooksLikeUrl(content) THEN "url"
    ELSE IF LooksLikeEmail(content) THEN "email"
    ELSE IF LooksLikePhone(content) THEN "phone"
    ELSE IF LooksLikeWifi(content) THEN "wifi"
    ELSE "text"

(***************************************************************************)
(* The component's state.                                                  *)
(*                                                                         *)
(* A BatchEntry is a JavaScript object: the arrays that hold it (the       *)
(* batchEntries state, the copy updateBatchEntry makes, the array a        *)
(* running generateBatchQRCodes iterates) hold references to it.  heap     *)
(* maps each reference to the object's fields.                             *)
(***************************************************************************)
VARIABLES
    mode,               \* useState<Mode>('single')
    error,              \* useState('')
    qrCodeUrl,          \* useState('')
    batchEntries,       \* useState<BatchEntry[]>: a sequence of references
    heap,               \* the BatchEntry objects, by reference
    batchCodes,         \* useState<BatchQRCode[]>([])
    isGenerating,       \* useState(false)
    hasNewEntries,      \* useState<boolean>(true)
    uploadedItemsCount, \* useState({ batch: 0, 'yandex-ultima': 0 })
    run,                \* the call of generateBatchQRCodes in flight
    encoderCalls,       \* the QRCode.toDataURL promises not yet settled
    runStart,           \* history: batchEntries' values and batchCodes when
                        \* the run in flight started, and how the last run
                        \* ended
    built,              \* history: for each code of batchCodes, the mode and
                        \* the entry's fields read when its payload was built
    events,             \* the number of user events so far
    isUploading,        \* useState(false)
    reader,             \* the FileReader of handleFileUpload in flight
    fileFormat,         \* useState<'png' | 'eps'>('png')
    useContentAsFilename, \* useState(false)
    isDownloadingZip,   \* useState(false)
    zip,                \* the call of downloadAllQRCodesAsZip in flight or
                        \* ended last: what it read, its archive, and
                        \* (history) its calls of zip.file
    text,               \* useState('')
    contentType,        \* useState<ContentType>('text')
    isGeneratingSingle, \* useState(false)
    single,             \* the call of generateQRCode in flight
    fnRaw,              \* an input of the pure functions
    fnKind,             \* the content type given with it
    fnOut               \* what the function applied to them returned

vars == <<mode, error, qrCodeUrl, batchEntries, heap, batchCodes, isGenerating,
          hasNewEntries, uploadedItemsCount, run, encoderCalls, runStart,
          built, events, isUploading, reader, fileFormat,
          useContentAsFilename, isDownloadingZip, zip, text, contentType,
          isGeneratingSingle, single, fnRaw, fnKind, fnOut>>

componentVars == <<mode, error, qrCodeUrl, batchEntries, heap, batchCodes,
                   isGenerating, hasNewEntries, uploadedItemsCount, run,
                   encoderCalls, runStart, built, events, isUploading,
                   reader, fileFormat, useContentAsFilename, isDownloadingZip,
                   zip, text, contentType, isGeneratingSingle, single>>

fnVars == <<fnRaw, fnKind, fnOut>>

uploadVars == <<isUploading, reader>>

zipVars == <<fileFormat, useContentAsFilename, isDownloadingZip, zip>>

singleVars == <<text, contentType, isGeneratingSingle, single>>

Modes == {"single", "batch", "yandex-ultima"}

BatchModes == {"batch", "yandex-ultima"}

\* qrCodeUrl is '', no image, or the data URL of an image.
NoUrl == [png |-> << >>]

\* The error messages of the batch handlers.
NoError == ""

ErrNoContent == "Please enter content for at least one QR code"

ErrBatchFailed == "Failed to generate batch QR codes"

\* What the user types into an entry's input: nothing, white space only,
\* and two texts, one with white space around it.
TypedContents == {<< >>, <<" ">>, <<" ", "a">>, <<"b">>}

\* The longest batchEntries list: the user's, or an uploaded file's.
MaxList ==
    LET upload == IF MaxLines > MaxRows THEN MaxLines ELSE MaxRows
    IN  IF MaxEntries > upload THEN MaxEntries ELSE upload

\* References to BatchEntry objects: enough for the entries of batchEntries
\* and those of the array a run in flight still iterates.
Refs == 1..(2 * MaxList)

\* { content: '', type: 'text' }
BlankEntry == [content |-> << >>, type |-> "text"]

NoUploads == [batch |-> 0, yandex |-> 0]

\* No call of generateBatchQRCodes is in flight.
NoRun == [pc |-> "idle", entries |-> << >>, mode |-> "single", i |-> 0,
          batchResults |-> << >>, built |-> << >>]

NoRunStart == [entries |-> << >>, codes |-> << >>, outcome |-> "none",
               dropped |-> 0]

\* History: a run ended with this outcome, dropping this many pushed codes.
RunEnded(outcome, dropped) ==
    [entries |-> << >>, codes |-> << >>, outcome |-> outcome, dropped |-> dropped]

\* The elements of a sequence.
Range(seq) == {seq[i] : i \in 1..Len(seq)}

\* A reference no live array holds.
NewRef(used) == CHOOSE r \in Refs \ used : \A q \in Refs \ used : r <= q

\* n references no live array holds.
RECURSIVE NewRefs(_, _)
NewRefs(used, n) ==
    IF n = 0 THEN << >>
    ELSE <<NewRef(used)>> \o NewRefs(used \cup {NewRef(used)}, n - 1)

\* The heap with the objects no array refers to any more collected.
Collect(h, entries, r) ==
    [ref \in Refs |->
        IF ref \in Range(entries) \cup Range(r.entries) THEN h[ref] ELSE BlankEntry]

\* The values of the entries of an array.
Values(entries, h) == [i \in 1..Len(entries) |-> h[entries[i]]]

(***************************************************************************)
(* generateBatchQRCodes (lines 1244-1299) and the encoder.                 *)
(***************************************************************************)
\* The fixed URL the yandex-ultima mode puts before each promocode.
PromoTemplate ==
    <<"h", "t", "t", "p", "s", ":", "/", "/", "8", "j", "x", "m", ".", "a",
      "d", "j", ".", "s", "t", "/", "a", "d", "d", "p", "r", "o", "m", "o",
      "c", "o", "d", "e", "?", "a", "d", "j", "_", "t", "=", "r", "f", "7",
      "a", "0", "p", "4", "_", "8", "c", "g", "c", "7", "k", "g", "&", "r",
      "e", "f", "=", "q", "r", "&", "c", "o", "d", "e", "=">>

\* batchEntries.some(entry => entry.content.trim() !== '')
HasContent(entries, h) ==
    \E i \in 1..Len(entries) : Trim(h[entries[i]].content) # << >>

\* Variant of BuildPayload that puts the formatted content into the promo
\* template.
BuildPayloadFormatsPromo(m, entry) ==
    IF m = "yandex-ultima"
    THEN Return(PromoTemplate \o formatContentByType(entry.content, entry.type).value)
    ELSE formatContentByType(entry.content, entry.type)

\* The payload of one entry (lines 1263-1271), as a function outcome.
BuildPayload(m, entry) ==
    IF m = "yandex-ultima" THEN Return(PromoTemplate \o entry.content)
    ELSE formatContentByType(entry.content, entry.type)

\* The data URL QRCode.toDataURL resolves with: the image of its payload.
DataUrl(payload) == [png |-> payload]

\* The position of the first entry at or after from that the loop does not
\* skip (if (entry.content.trim())), 0 when there is none.
NextEntry(entries, h, from) ==
    IF \E j \in from..Len(entries) : Trim(h[entries[j]].content) # << >>
    THEN CHOOSE j \in from..Len(entries) :
             /\ Trim(h[entries[j]].content) # << >>
             /\ \A k \in from..(j - 1) : Trim(h[entries[k]].content) = << >>
    ELSE 0

\* Variant of IssueCalls that issues the calls of all the entries left at
\* once, as a Promise.all over them would.
IssueCallsAll(entries, h, m, j) ==
    {[i |-> k, payload |-> BuildPayload(m, h[entries[k]]).value] :
        k \in {k \in j..Len(entries) : Trim(h[entries[k]].content) # << >>}}

\* The encoder calls the loop makes on reaching position j: the one call it
\* awaits before going on.
IssueCalls(entries, h, m, j) ==
    {[i |-> j, payload |-> BuildPayload(m, h[entries[j]]).value]}

\* The loop from position from: it stops at the next await (a call is
\* issued), at the end of the array, or on a thrown error.
LoopFrom(entries, h, m, from) ==
    LET j == NextEntry(entries, h, from)
    IN  IF j = 0 THEN [at |-> "end", i |-> 0, calls |-> {}]
        ELSE IF BuildPayload(m, h[entries[j]]).threw
             THEN [at |-> "catch", i |-> j, calls |-> {}]
        ELSE [at |-> "await", i |-> j, calls |-> IssueCalls(entries, h, m, j)]

\* History: what the loop read of the entry at position j to build its
\* payload.
BuiltFrom(entries, h, m, j) ==
    [mode |-> m, content |-> h[entries[j]].content, type |-> h[entries[j]].type]

\* A user event: it is counted.
Counted ==
    /\ events < MaxEvents
    /\ events' = events + 1

\* Variant of PushedCode that stores the entry's content as the payload.
PushedCodeRawPayload(entry, call) ==
    [content |-> entry.content, type |-> entry.type,
     dataUrl |-> DataUrl(call.payload), formattedContent |-> entry.content]

\* The object batchResults.push is given once the call for position i has
\* resolved: content and type are read from the entry then.
PushedCode(entry, call) ==
    [content |-> entry.content, type |-> entry.type,
     dataUrl |-> DataUrl(call.payload), formattedContent |-> call.payload]

\* The Generate button (lines 1818-1826) runs generateBatchQRCodes while
\* hasNewEntries holds and is disabled while isGenerating holds.  The
\* handler runs up to its first await: the state it reads is the state of
\* the render it was created in, kept in run for the rest of the call.
generateBatchQRCodes ==
    /\ Counted
    /\ mode \in BatchModes
    /\ ~isGenerating
    /\ hasNewEntries
    /\ IF ~HasContent(batchEntries, heap)
       THEN /\ error' = ErrNoContent
            /\ UNCHANGED <<isGenerating, hasNewEntries, run, encoderCalls, runStart>>
       ELSE \E loop \in {LoopFrom(batchEntries, heap, mode, 1)} :
                IF loop.at = "catch"
                THEN /\ error' = ErrBatchFailed
                     /\ isGenerating' = FALSE
                     /\ hasNewEntries' = FALSE
                     /\ UNCHANGED <<run, encoderCalls, runStart>>
                ELSE /\ error' = NoError
                     /\ isGenerating' = TRUE
                     /\ hasNewEntries' = FALSE
                     /\ run' = [pc |-> "awaiting", entries |-> batchEntries,
                                mode |-> mode, i |-> loop.i,
                                batchResults |-> << >>,
                                built |-> <<BuiltFrom(batchEntries, heap,
                                                      mode, loop.i)>>]
                     /\ encoderCalls' = encoderCalls \cup loop.calls
                     /\ runStart' = [entries |-> Values(batchEntries, heap),
                                     codes |-> batchCodes,
                                     outcome |-> "running", dropped |-> 0]
    /\ UNCHANGED <<mode, qrCodeUrl, batchEntries, heap, batchCodes,
                   uploadedItemsCount, built, fnVars, singleVars, uploadVars, zipVars>>

\* An encoder call resolves: the run pushes the code (lines 1278-1283) and
\* goes on to its next await, or to setBatchCodes at the end of the array
\* (lines 1287-1288).
EncoderResolve ==
    \E call \in encoderCalls :
        /\ run.pc = "awaiting"
        /\ call.i <= Len(run.entries)
        /\ \E results \in {Append(run.batchResults,
                                     PushedCode(heap[run.entries[call.i]], call))} :
           \E loop \in {LoopFrom(run.entries, heap, run.mode, call.i + 1)} :
               IF loop.at = "await"
               THEN /\ run' = [run EXCEPT
                                !.i = loop.i,
                                !.batchResults = results,
                                !.built = Append(@, BuiltFrom(run.entries, heap,
                                                              run.mode, loop.i))]
                    /\ encoderCalls' = (encoderCalls \ {call}) \cup loop.calls
                    /\ UNCHANGED <<error, batchCodes, isGenerating, heap, runStart,
                                   built>>
               ELSE /\ IF loop.at = "end"
                       THEN /\ batchCodes' = results
                            /\ built' = run.built
                            /\ error' = error
                       ELSE /\ batchCodes' = batchCodes
                            /\ built' = built
                            /\ error' = ErrBatchFailed
                    /\ isGenerating' = FALSE
                    /\ run' = NoRun
                    /\ encoderCalls' = encoderCalls \ {call}
                    /\ runStart' = IF loop.at = "end" THEN RunEnded("stored", 0)
                                   ELSE RunEnded("failed", Len(results))
                    /\ heap' = Collect(heap, batchEntries, NoRun)
        /\ UNCHANGED <<mode, qrCodeUrl, batchEntries, hasNewEntries,
                       uploadedItemsCount, events, fnVars, singleVars, uploadVars, zipVars>>

\* Variant of EncoderReject whose catch clause stores the codes pushed so
\* far.
EncoderRejectStoresPartial ==
    \E call \in encoderCalls :
        /\ run.pc = "awaiting"
        /\ error' = ErrBatchFailed
        /\ isGenerating' = FALSE
        /\ batchCodes' = run.batchResults
        /\ built' = SubSeq(run.built, 1, Len(run.batchResults))
        /\ run' = NoRun
        /\ encoderCalls' = encoderCalls \ {call}
        /\ runStart' = RunEnded("rejected", Len(run.batchResults))
        /\ heap' = Collect(heap, batchEntries, NoRun)
        /\ UNCHANGED <<mode, qrCodeUrl, batchEntries, hasNewEntries,
                       uploadedItemsCount, events, fnVars, singleVars, uploadVars, zipVars>>

\* An encoder call rejects: the catch clause of the run (lines 1294-1298).
EncoderReject ==
    \E call \in encoderCalls :
        /\ run.pc = "awaiting"
        /\ error' = ErrBatchFailed
        /\ isGenerating' = FALSE
        /\ run' = NoRun
        /\ encoderCalls' = encoderCalls \ {call}
        /\ runStart' = RunEnded("rejected", Len(run.batchResults))
        /\ heap' = Collect(heap, batchEntries, NoRun)
        /\ UNCHANGED <<mode, qrCodeUrl, batchEntries, batchCodes, hasNewEntries,
                       uploadedItemsCount, built, events,
                       fnVars, singleVars, uploadVars, zipVars>>

(***************************************************************************)
(* The handlers of the entry list (lines 1081-1103).                       *)
(***************************************************************************)
addBatchEntry ==
    /\ Counted
    /\ mode \in BatchModes
    /\ Len(batchEntries) < MaxEntries
    /\ LET ref == NewRef(Range(batchEntries) \cup Range(run.entries))
       IN  /\ batchEntries' = Append(batchEntries, ref)
           /\ heap' = [heap EXCEPT ![ref] = BlankEntry]
    /\ hasNewEntries' = TRUE
    /\ UNCHANGED <<mode, error, qrCodeUrl, batchCodes, isGenerating,
                   uploadedItemsCount, run, encoderCalls, runStart, built,
                   fnVars, singleVars, uploadVars, zipVars>>

\* newEntries.splice(index, 1)
Splice(entries, index) ==
    SubSeq(entries, 1, index - 1) \o SubSeq(entries, index + 1, Len(entries))

\* Variant of removeBatchEntry without the test of the length.
removeBatchEntryAny(index) ==
    /\ Counted
    /\ mode \in BatchModes
    /\ index \in 1..Len(batchEntries)
    /\ batchEntries' = Splice(batchEntries, index)
    /\ heap' = Collect(heap, Splice(batchEntries, index), run)
    /\ UNCHANGED <<mode, error, qrCodeUrl, batchCodes, isGenerating, hasNewEntries,
                   uploadedItemsCount, run, encoderCalls, runStart, built,
                   fnVars, singleVars, uploadVars, zipVars>>

\* The remove button of an entry is rendered when there is more than one
\* entry (line 1792).
removeBatchEntry(index) ==
    /\ Counted
    /\ mode \in BatchModes
    /\ index \in 1..Len(batchEntries)
    /\ Len(batchEntries) > 1
    /\ batchEntries' = Splice(batchEntries, index)
    /\ heap' = Collect(heap, Splice(batchEntries, index), run)
    /\ UNCHANGED <<mode, error, qrCodeUrl, batchCodes, isGenerating, hasNewEntries,
                   uploadedItemsCount, run, encoderCalls, runStart, built,
                   fnVars, singleVars, uploadVars, zipVars>>

\* Variant in which a stored code is the object of its entry, so that the
\* write reaches the code at the entry's position.
updateBatchEntryWritesCode(index, field, value) ==
    /\ Counted
    /\ mode \in BatchModes
    /\ index \in 1..Len(batchEntries)
    /\ heap' = IF field = "type"
               THEN [heap EXCEPT ![batchEntries[index]].type = value]
               ELSE [heap EXCEPT ![batchEntries[index]].content = value]
    /\ batchCodes' = [k \in 1..Len(batchCodes) |->
                          IF k # index THEN batchCodes[k]
                          ELSE IF field = "type"
                               THEN [batchCodes[k] EXCEPT !.type = value]
                               ELSE [batchCodes[k] EXCEPT !.content = value]]
    /\ hasNewEntries' = TRUE
    /\ UNCHANGED <<mode, error, qrCodeUrl, batchEntries, isGenerating,
                   uploadedItemsCount, run, encoderCalls, runStart, built,
                   fnVars, singleVars, uploadVars, zipVars>>

\* newEntries = [...batchEntries] copies the array, not the objects:
\* newEntries[index].content = value writes the object batchEntries, and a
\* run in flight, hold.
updateBatchEntry(index, field, value) ==
    /\ Counted
    /\ mode \in BatchModes
    /\ index \in 1..Len(batchEntries)
    /\ heap' = IF field = "type"
               THEN [heap EXCEPT ![batchEntries[index]].type = value]
               ELSE [heap EXCEPT ![batchEntries[index]].content = value]
    /\ hasNewEntries' = TRUE
    /\ UNCHANGED <<mode, error, qrCodeUrl, batchEntries, batchCodes, isGenerating,
                   uploadedItemsCount, run, encoderCalls, runStart, built,
                   fnVars, singleVars, uploadVars, zipVars>>

(***************************************************************************)
(* toggleMode (lines 1454-1468) and resetBatchQR (lines 1519-1531).        *)
(***************************************************************************)
toggleMode(newMode) ==
    LET ref     == NewRef(Range(run.entries))
        entries == IF newMode \in BatchModes THEN <<ref>> ELSE batchEntries
        h       == IF newMode \in BatchModes
                   THEN [heap EXCEPT ![ref] = BlankEntry] ELSE heap
    IN  /\ Counted
        /\ mode' = newMode
        /\ error' = NoError
        /\ batchCodes' = << >>
        /\ built' = << >>
        /\ qrCodeUrl' = NoUrl
        /\ uploadedItemsCount' = NoUploads
        /\ batchEntries' = entries
        /\ heap' = Collect(h, entries, run)
        /\ UNCHANGED <<isGenerating, hasNewEntries, run, encoderCalls, runStart,
                       fnVars, singleVars, uploadVars, zipVars>>

\* The Generate button runs resetBatchQR instead while hasNewEntries is
\* false (line 1819).
resetBatchQR ==
    /\ Counted
    /\ mode \in BatchModes
    /\ ~isGenerating
    /\ ~hasNewEntries
    /\ LET ref == NewRef(Range(run.entries))
       IN  /\ batchEntries' = <<ref>>
           /\ heap' = Collect([heap EXCEPT ![ref] = BlankEntry], <<ref>>, run)
    /\ batchCodes' = << >>
    /\ built' = << >>
    /\ error' = NoError
    /\ uploadedItemsCount' = NoUploads
    /\ hasNewEntries' = TRUE
    /\ UNCHANGED <<mode, qrCodeUrl, isGenerating, run, encoderCalls, runStart,
                   fnVars, singleVars, uploadVars, zipVars>>

(***************************************************************************)
(* handleFileUpload (lines 1105-1236) and its FileReader.                  *)
(***************************************************************************)
\* The error messages of an upload: an unsupported extension (line 1228), a
\* file without text (line 1187), without a kept line (line 1196) or row
\* (line 1148), a workbook XLSX.read throws on (line 1168), and a
\* FileReader error (lines 1222 and 1174).
UploadError ==
    [unsupported  |-> "Unsupported file format. Please upload a .txt or .xlsx file.",
     empty        |-> "File appears to be empty",
     noLines      |-> "No content found in file",
     noRows       |-> "No content found in Excel file",
     readExcel    |-> "Failed to read Excel file",
     readingFile  |-> "Error reading file",
     readingExcel |-> "Error reading Excel file"]

\* No FileReader is reading.
NoReader == [pc |-> "idle"]

\* The position of the last "." of a file name, 0 when it has none.
LastDot(name) ==
    IF \E i \in 1..Len(name) : name[i] = "."
    THEN CHOOSE i \in 1..Len(name) :
             name[i] = "." /\ \A j \in (i + 1)..Len(name) : name[j] # "."
    ELSE 0

\* file.name.split('.').pop()?.toLowerCase()
FileExtension(name) ==
    [i \in 1..(Len(name) - LastDot(name)) |-> LowerChar(name[LastDot(name) + i])]

\* The extensions handleFileUpload reads (lines 1116 and 1179).
Extension ==
    [txt |-> <<"t", "x", "t">>, xlsx |-> <<"x", "l", "s", "x">>,
     xls |-> <<"x", "l", "s">>]

\* content.split(/\r?\n/): the text is cut at every line feed, and a
\* carriage return right before the line feed belongs to the separator.
RECURSIVE SplitLines(_)
SplitLines(content) ==
    IF \E i \in 1..Len(content) : content[i] = "\n"
    THEN LET lf   == CHOOSE i \in 1..Len(content) :
                         content[i] = "\n" /\ \A j \in 1..(i - 1) : content[j] # "\n"
             last == IF lf > 1 /\ content[lf - 1] = "\r" THEN lf - 2 ELSE lf - 1
         IN  <<SubSeq(content, 1, last)>>
             \o SplitLines(SubSeq(content, lf + 1, Len(content)))
    ELSE <<content>>

TxtLinesKeepBlank(content) == SplitLines(content)

\* content.split(/\r?\n/).filter(line => line.trim() !== '')
TxtLines(content) == SelectSeq(SplitLines(content), LAMBDA line : Trim(line) # << >>)

\* row && Array.isArray(row) && row.length > 0 && row[0]
RowHasContent(row) == Len(row) > 0 /\ Truthy(row[1])

\* jsonData.filter(...).map(row => row[0].toString().trim())
ContentRows(rows) ==
    LET kept == SelectSeq(rows, RowHasContent)
    IN  [i \in 1..Len(kept) |-> Trim(TemplateString(kept[i][1]))]

\* The key of uploadedItemsCount a batch mode writes.
SetCount(count, m, n) ==
    IF m = "batch" THEN [count EXCEPT !.batch = n] ELSE [count EXCEPT !.yandex = n]

\* newEntries: one { content, type: 'text' } object for each content.
UploadedType(content) == "text"

\* The user picks a file in the dialog the upload button opens; the button
\* is rendered in the batch modes and disabled while isUploading (line 1714).
handleFileUpload(file) ==
    LET ext == FileExtension(file.name)
    IN  /\ Counted
        /\ mode \in BatchModes
        /\ ~isUploading
        /\ hasNewEntries' = TRUE
        /\ IF ext \in {Extension.xlsx, Extension.xls}
           THEN /\ isUploading' = TRUE
                /\ error' = NoError
                /\ reader' = [pc |-> "reading", as |-> "excel", file |-> file,
                              mode |-> mode]
           ELSE IF ext = Extension.txt
           THEN /\ isUploading' = TRUE
                /\ error' = NoError
                /\ reader' = [pc |-> "reading", as |-> "text", file |-> file,
                              mode |-> mode]
           ELSE /\ isUploading' = FALSE
                /\ error' = UploadError.unsupported
                /\ UNCHANGED reader
        /\ UNCHANGED <<mode, qrCodeUrl, batchEntries, heap, batchCodes,
                       isGenerating, uploadedItemsCount, run, encoderCalls,
                       runStart, built, fnVars, singleVars, zipVars>>

\* setBatchEntries(newEntries); setUploadedItemsCount(prev => ({ ...prev,
\* [mode]: n })) with the mode of the render the upload started in.
StoreUpload(contents) ==
    LET refs == NewRefs(Range(run.entries), Len(contents))
        h    == [ref \in Refs |->
                    IF \E i \in 1..Len(refs) : refs[i] = ref
                    THEN LET i == CHOOSE i \in 1..Len(refs) : refs[i] = ref
                         IN  [content |-> contents[i],
                              type |-> UploadedType(contents[i])]
                    ELSE heap[ref]]
    IN  /\ batchEntries' = refs
        /\ heap' = Collect(h, refs, run)
        /\ uploadedItemsCount' = SetCount(uploadedItemsCount, reader.mode,
                                          Len(contents))
        /\ UNCHANGED error

\* The upload ends with an error message and stores nothing.
FailUpload(message) ==
    /\ error' = message
    /\ UNCHANGED <<batchEntries, heap, uploadedItemsCount>>

\* reader.onload: lines 1182-1215 for a text file, lines 1119-1166 for a
\* spreadsheet (XLSX.read throws on a file it cannot read).
FileReaderLoad ==
    /\ reader.pc = "reading"
    /\ IF reader.as = "text"
       THEN \E lines \in {TxtLines(reader.file.text)} :
                IF reader.file.text = << >> THEN FailUpload(UploadError.empty)
                ELSE IF lines = << >> THEN FailUpload(UploadError.noLines)
                ELSE StoreUpload([i \in 1..Len(lines) |-> Trim(lines[i])])
       ELSE \E contentRows \in {ContentRows(reader.file.rows)} :
                IF reader.file.corrupt THEN FailUpload(UploadError.readExcel)
                ELSE IF contentRows = << >> THEN FailUpload(UploadError.noRows)
                ELSE StoreUpload(contentRows)
    /\ isUploading' = FALSE
    /\ reader' = NoReader
    /\ UNCHANGED <<mode, qrCodeUrl, batchCodes, isGenerating, hasNewEntries,
                   run, encoderCalls, runStart, built, events, fnVars, singleVars, zipVars>>

\* reader.onerror (lines 1174-1177 and 1222-1225)
FileReaderError ==
    /\ reader.pc = "reading"
    /\ error' = IF reader.as = "text" THEN UploadError.readingFile ELSE UploadError.readingExcel
    /\ isUploading' = FALSE
    /\ reader' = NoReader
    /\ UNCHANGED <<mode, qrCodeUrl, batchEntries, heap, batchCodes, isGenerating,
                   hasNewEntries, uploadedItemsCount, run, encoderCalls,
                   runStart, built, events, fnVars, singleVars, zipVars>>

(***************************************************************************)
(* convertCanvasToEPS (lines 1415-1452).                                   *)
(***************************************************************************)
\* The header of the file: the lines written before the pixels are read
\* (lines 1427-1437).
EpsHeader(width, height) ==
    <<"%", "!", "P", "S", "-", "A", "d", "o", "b", "e", "-", "3", ".", "0", " ",
      "E", "P", "S", "F", "-", "3", ".", "0", "\n">>
    \o <<"%", "%", "B", "o", "u", "n", "d", "i", "n", "g", "B", "o", "x", ":",
         " ", "0", " ", "0", " ">>
    \o NatToString(width) \o <<" ">> \o NatToString(height) \o <<"\n">>
    \o <<"/", "s", "c", "a", "n", "l", "i", "n", "e", " ", "{", " ", "%", " ",
         "x", " ", "y", " ", "s", "c", "a", "n", "l", "i", "n", "e", "\n">>
    \o <<" ", " ", "/", "y", " ", "e", "x", "c", "h", " ", "d", "e", "f", "\n">>
    \o <<" ", " ", "/", "x", " ", "e", "x", "c", "h", " ", "d", "e", "f", "\n">>
    \o <<" ", " ", "x", " ", "y", " ", "m", "o", "v", "e", "t", "o", "\n">>
    \o <<" ", " ", "x", " ", "1", " ", "a", "d", "d", " ", "y", " ", "l", "i",
         "n", "e", "t", "o", "\n">>
    \o <<" ", " ", "s", "t", "r", "o", "k", "e", "\n">>
    \o <<"}", " ", "d", "e", "f", "\n">>
    \o <<"0", ".", "5", " ", "s", "e", "t", "l", "i", "n", "e", "w", "i", "d",
         "t", "h", "\n">>
    \o <<"0", " ", "s", "e", "t", "g", "r", "a", "y", "\n">>

ScanlineUnflipped(x, y, height) ==
    NatToString(x) \o <<" ">> \o NatToString(y)
    \o <<" ", "s", "c", "a", "n", "l", "i", "n", "e", "\n">>

\* `${x} ${height - y} scanline\n`
Scanline(x, y, height) ==
    NatToString(x) \o <<" ">> \o NatToString(height - y)
    \o <<" ", "s", "c", "a", "n", "l", "i", "n", "e", "\n">>

\* The alpha a pixel must exceed to be drawn (line 1444).
AlphaThreshold == 128

IsOpaqueInclusive(alpha) == alpha >= AlphaThreshold

\* alpha > 128: the pixel is not transparent.
IsOpaque(alpha) == alpha > AlphaThreshold

\* imageData.data[(y * width + x) * 4 + 3]: data holds four bytes per pixel
\* (red, green, blue, alpha), row by row, from index 0.
AlphaAt(canvas, x, y) == canvas.data[((y * canvas.width + x) * 4) + 3 + 1]

\* The canvas as convertCanvasToEPS reads it: its size, the bytes
\* getImageData returns, and whether getContext('2d') gave a context.
convertCanvasToEPS(canvas) ==
    LET width  == canvas.width
        height == canvas.height
        Row(y) == Concat([c \in 1..width |->
                             IF IsOpaque(AlphaAt(canvas, c - 1, y))
                             THEN Scanline(c - 1, y, height) ELSE << >>])
    IN  IF ~canvas.context THEN Throw("Failed to get image data")
        ELSE Return(EpsHeader(width, height)
                    \o Concat([r \in 1..height |-> Row(r - 1)])
                    \o <<"s", "h", "o", "w", "p", "a", "g", "e", "\n">>)

(***************************************************************************)
(* downloadAllQRCodesAsZip (lines 1340-1413).                              *)
(***************************************************************************)
ErrZipFailed == "Failed to create zip file"

FileFormats == {"png", "eps"}

\* The characters of the type and format names a template literal writes.
NameChars ==
    [text  |-> <<"t", "e", "x", "t">>, url |-> <<"u", "r", "l">>,
     email |-> <<"e", "m", "a", "i", "l">>, phone |-> <<"p", "h", "o", "n", "e">>,
     sms   |-> <<"s", "m", "s">>, wifi |-> <<"w", "i", "f", "i">>,
     png   |-> <<"p", "n", "g">>, eps |-> <<"e", "p", "s">>]

IsAlphaNumeric(c) ==
    \/ IsDigit(c)
    \/ \E i \in 1..Len(LowerChars) : LowerChars[i] = c \/ UpperChars[i] = c

\* The length .slice(0, 30) cuts a file name's stem to.
StemLength == 30

SanitizeStrips(s) ==
    LET kept == SelectSeq(s, IsAlphaNumeric)
    IN  SubSeq(Lowered(kept), 1, IF Len(kept) < StemLength THEN Len(kept) ELSE StemLength)

\* s.replace(/[^a-z0-9]/gi, '_').toLowerCase().slice(0, 30)
Sanitize(s) ==
    LET replaced == [i \in 1..Len(s) |-> IF IsAlphaNumeric(s[i]) THEN s[i] ELSE "_"]
    IN  SubSeq(Lowered(replaced), 1,
               IF Len(s) < StemLength THEN Len(s) ELSE StemLength)

FilenameByContentOnly(code, byContent, m, format) ==
    Sanitize(code.content) \o <<".">> \o NameChars[format]

\* The name of the file of one code (lines 1351-1367).
Filename(code, byContent, m, format) ==
    IF byContent \/ m = "yandex-ultima"
    THEN Sanitize(code.content) \o <<".">> \o NameChars[format]
    ELSE Sanitize(code.formattedContent) \o <<"_">> \o NameChars[code.type]
         \o <<".">> \o NameChars[format]

ZipFileKeepsBoth(files, name, data) == files \cup {[name |-> name, data |-> data]}

\* zip.file(name, data): the archive holds one file under a name, the one
\* added last.
ZipFile(files, name, data) ==
    {f \in files : f.name # name} \cup {[name |-> name, data |-> data]}

\* Variant that stores split(',')[0], the header of the data URL.
PngDataHeader(dataUrl) ==
    [png |-> <<"d", "a", "t", "a", ":", "i", "m", "a", "g", "e", "/", "p", "n", "g">>]

\* code.dataUrl.split(',')[1], stored with { base64: true }: the image.
PngData(dataUrl) == [png |-> dataUrl.png]

\* The archive after the files of the codes from position i on have been
\* added as PNG images.
RECURSIVE AddPngFrom(_, _, _, _, _, _)
AddPngFrom(files, codes, i, byContent, m, format) ==
    IF i > Len(codes) THEN files
    ELSE AddPngFrom(ZipFile(files, Filename(codes[i], byContent, m, format),
                            PngData(codes[i].dataUrl)),
                    codes, i + 1, byContent, m, format)

\* History: the calls of zip.file for the codes as PNG images, in order.
PngCalls(codes, byContent, m, format) ==
    [k \in 1..Len(codes) |->
        [name |-> Filename(codes[k], byContent, m, format),
         data |-> PngData(codes[k].dataUrl)]]

\* The selects and check boxes next to a result (lines 1647-1661 and
\* 1837-1852), shown once there is a code to download.
ResultShown ==
    \/ mode \in BatchModes /\ batchCodes # << >>
    \/ mode = "single" /\ qrCodeUrl # NoUrl

setFileFormat(format) ==
    /\ ResultShown
    /\ fileFormat' = format
    /\ UNCHANGED <<mode, error, qrCodeUrl, batchEntries, heap, batchCodes,
                   isGenerating, hasNewEntries, uploadedItemsCount, run,
                   encoderCalls, runStart, built, events, uploadVars,
                   useContentAsFilename, isDownloadingZip, zip, fnVars, singleVars>>

\* The check box is not rendered in the yandex-ultima mode (line 1846).
setUseContentAsFilename(checked) ==
    /\ ResultShown
    /\ mode # "yandex-ultima"
    /\ useContentAsFilename' = checked
    /\ UNCHANGED <<mode, error, qrCodeUrl, batchEntries, heap, batchCodes,
                   isGenerating, hasNewEntries, uploadedItemsCount, run,
                   encoderCalls, runStart, built, events, uploadVars,
                   fileFormat, isDownloadingZip, zip, fnVars, singleVars>>

\* The Download all button (lines 1862-1866) is disabled while
\* isDownloadingZip holds.  The call reads batchCodes, mode, fileFormat and
\* useContentAsFilename of the render it was made in.  With the PNG format
\* it runs to zip.generateAsync, its first await; with the EPS format to
\* the await of the first image's load.
downloadAllQRCodesAsZip ==
    /\ mode \in BatchModes
    /\ batchCodes # << >>
    /\ ~isDownloadingZip
    /\ isDownloadingZip' = TRUE
    /\ zip' = IF fileFormat = "png"
              THEN [pc |-> "generate", codes |-> batchCodes, mode |-> mode,
                    byContent |-> useContentAsFilename, format |-> fileFormat,
                    i |-> Len(batchCodes),
                    files |-> AddPngFrom({}, batchCodes, 1, useContentAsFilename,
                                         mode, fileFormat),
                    added |-> PngCalls(batchCodes, useContentAsFilename, mode,
                                       fileFormat)]
              ELSE [pc |-> "image", codes |-> batchCodes, mode |-> mode,
                    byContent |-> useContentAsFilename, format |-> fileFormat,
                    i |-> 1, files |-> {}, added |-> << >>]
    /\ UNCHANGED <<mode, error, qrCodeUrl, batchEntries, heap, batchCodes,
                   isGenerating, hasNewEntries, uploadedItemsCount, run,
                   encoderCalls, runStart, built, events, uploadVars,
                   fileFormat, useContentAsFilename, fnVars, singleVars>>

\* catch and finally (lines 1407-1412): the call ends without an archive.
ZipFails ==
    /\ error' = ErrZipFailed
    /\ isDownloadingZip' = FALSE
    /\ zip' = [pc |-> "failed", codes |-> zip.codes, mode |-> zip.mode,
               byContent |-> zip.byContent, format |-> zip.format,
               i |-> zip.i, files |-> zip.files, added |-> zip.added]

\* img.onload (lines 1381-1386): the image of code i is drawn on the
\* canvas, the canvas converted and the text added to the archive; then the
\* next image is loaded, or the archive generated.
ImageLoaded(canvas) ==
    /\ zip.pc = "image"
    /\ \E eps \in {convertCanvasToEPS(canvas)} :
           IF eps.threw THEN ZipFails
           ELSE /\ zip' = [zip EXCEPT
                              !.files = ZipFile(@, Filename(zip.codes[zip.i],
                                                            zip.byContent, zip.mode,
                                                            zip.format),
                                                [eps |-> eps.value]),
                              !.added = Append(@, [name |-> Filename(zip.codes[zip.i],
                                                       zip.byContent, zip.mode,
                                                       zip.format),
                                                   data |-> [eps |-> eps.value]]),
                              !.i = IF zip.i < Len(zip.codes) THEN @ + 1 ELSE @,
                              !.pc = IF zip.i < Len(zip.codes) THEN "image"
                                     ELSE "generate"]
                /\ UNCHANGED <<error, isDownloadingZip>>
    /\ UNCHANGED <<mode, qrCodeUrl, batchEntries, heap, batchCodes,
                   isGenerating, hasNewEntries, uploadedItemsCount, run,
                   encoderCalls, runStart, built, events, uploadVars,
                   fileFormat, useContentAsFilename, fnVars, singleVars>>

\* img.onerror = reject (line 1387)
ImageError ==
    /\ zip.pc = "image"
    /\ ZipFails
    /\ UNCHANGED <<mode, qrCodeUrl, batchEntries, heap, batchCodes,
                   isGenerating, hasNewEntries, uploadedItemsCount, run,
                   encoderCalls, runStart, built, events, uploadVars,
                   fileFormat, useContentAsFilename, fnVars, singleVars>>

\* zip.generateAsync resolves: the browser is handed qr_codes.zip (lines
\* 1398-1406).
ZipGenerated ==
    /\ zip.pc = "generate"
    /\ zip' = [zip EXCEPT !.pc = "saved"]
    /\ isDownloadingZip' = FALSE
    /\ UNCHANGED <<mode, error, qrCodeUrl, batchEntries, heap, batchCodes,
                   isGenerating, hasNewEntries, uploadedItemsCount, run,
                   encoderCalls, runStart, built, events, uploadVars,
                   fileFormat, useContentAsFilename, fnVars, singleVars>>

\* zip.generateAsync rejects.
ZipRejected ==
    /\ zip.pc = "generate"
    /\ ZipFails
    /\ UNCHANGED <<mode, qrCodeUrl, batchEntries, heap, batchCodes,
                   isGenerating, hasNewEntries, uploadedItemsCount, run,
                   encoderCalls, runStart, built, events, uploadVars,
                   fileFormat, useContentAsFilename, fnVars, singleVars>>

(***************************************************************************)
(* The single mode: handleTextChange (lines 1502-1511), resetSingleQR      *)
(* (lines 1513-1517) and generateQRCode (lines 1042-1079).                 *)
(***************************************************************************)
\* The error messages of generateQRCode (lines 1048 and 1075).
SingleError ==
    [empty  |-> "Please enter some content",
     failed |-> "Failed to generate QR code"]

\* No call of generateQRCode is in flight; history: how the last one ended.
CallEnded(outcome) == [pc |-> "idle", outcome |-> outcome]

NoCall == CallEnded("none")

\* The single mode after the first render (lines 993-1001).
NoSingle ==
    /\ text = << >>
    /\ contentType = "text"
    /\ isGeneratingSingle = FALSE
    /\ single = NoCall

\* Variant of handleTextChange that runs the detector on every input.
handleTextChangeDetectsAlways(inputValue) ==
    /\ Counted
    /\ mode = "single"
    /\ text' = inputValue
    /\ contentType' = detectContentType(inputValue)
    /\ UNCHANGED <<mode, error, qrCodeUrl, batchEntries, heap, batchCodes,
                   isGenerating, hasNewEntries, uploadedItemsCount, run,
                   encoderCalls, runStart, built, uploadVars, zipVars,
                   isGeneratingSingle, single, fnVars>>

\* The textarea of the single mode (lines 1590-1594).  The detector runs
\* only when the input has something besides white space.
handleTextChange(inputValue) ==
    /\ Counted
    /\ mode = "single"
    /\ text' = inputValue
    /\ contentType' = IF Trim(inputValue) # << >>
                      THEN detectContentType(inputValue)
                      ELSE contentType
    /\ UNCHANGED <<mode, error, qrCodeUrl, batchEntries, heap, batchCodes,
                   isGenerating, hasNewEntries, uploadedItemsCount, run,
                   encoderCalls, runStart, built, uploadVars, zipVars,
                   isGeneratingSingle, single, fnVars>>

\* The Reset button is rendered next to a result (lines 1643 and 1679).
resetSingleQR ==
    /\ Counted
    /\ mode = "single"
    /\ qrCodeUrl # NoUrl
    /\ text' = << >>
    /\ qrCodeUrl' = NoUrl
    /\ error' = NoError
    /\ UNCHANGED <<mode, batchEntries, heap, batchCodes, isGenerating,
                   hasNewEntries, uploadedItemsCount, run, encoderCalls,
                   runStart, built, uploadVars, zipVars, contentType,
                   isGeneratingSingle, single, fnVars>>

\* Variant of generateQRCode that raises the busy flag before it looks at
\* the text.
generateQRCodeBusyFirst ==
    /\ Counted
    /\ mode = "single"
    /\ ~isGeneratingSingle
    /\ IF text = << >>
       THEN /\ error' = SingleError.empty
            /\ isGeneratingSingle' = TRUE
            /\ UNCHANGED single
       ELSE \E formattedContent \in {formatContentByType(text, contentType)} :
                IF formattedContent.threw
                THEN /\ error' = SingleError.failed
                     /\ UNCHANGED <<isGeneratingSingle, single>>
                ELSE /\ error' = NoError
                     /\ isGeneratingSingle' = TRUE
                     /\ single' = [pc |-> "toCanvas",
                                   payload |-> formattedContent.value]
    /\ UNCHANGED <<mode, qrCodeUrl, batchEntries, heap, batchCodes,
                   isGenerating, hasNewEntries, uploadedItemsCount, run,
                   encoderCalls, runStart, built, uploadVars, zipVars, text,
                   contentType, fnVars>>

\* The Generate button of the single mode (lines 1613-1620) is disabled
\* while isGeneratingSingle holds.  The handler runs up to its first await,
\* QRCode.toCanvas on the hidden canvas, which is rendered with and without
\* a result (lines 1630 and 1637); text and contentType are those of the
\* render the handler was created in.
generateQRCode ==
    /\ Counted
    /\ mode = "single"
    /\ ~isGeneratingSingle
    /\ IF text = << >>
       THEN /\ error' = SingleError.empty
            /\ UNCHANGED <<isGeneratingSingle, single>>
       ELSE \E formattedContent \in {formatContentByType(text, contentType)} :
                IF formattedContent.threw
                THEN /\ error' = SingleError.failed
                     /\ UNCHANGED <<isGeneratingSingle, single>>
                ELSE /\ error' = NoError
                     /\ isGeneratingSingle' = TRUE
                     /\ single' = [pc |-> "toCanvas",
                                   payload |-> formattedContent.value]
    /\ UNCHANGED <<mode, qrCodeUrl, batchEntries, heap, batchCodes,
                   isGenerating, hasNewEntries, uploadedItemsCount, run,
                   encoderCalls, runStart, built, uploadVars, zipVars, text,
                   contentType, fnVars>>

\* QRCode.toCanvas resolves: the handler goes on to QRCode.toDataURL.
ToCanvasResolve ==
    /\ single.pc = "toCanvas"
    /\ single' = [single EXCEPT !.pc = "toDataURL"]
    /\ UNCHANGED <<mode, error, qrCodeUrl, batchEntries, heap, batchCodes,
                   isGenerating, hasNewEntries, uploadedItemsCount, run,
                   encoderCalls, runStart, built, events, uploadVars, zipVars,
                   text, contentType, isGeneratingSingle, fnVars>>

\* QRCode.toDataURL resolves (lines 1071-1072).
ToDataURLResolve ==
    /\ single.pc = "toDataURL"
    /\ qrCodeUrl' = DataUrl(single.payload)
    /\ isGeneratingSingle' = FALSE
    /\ single' = CallEnded("resolved")
    /\ UNCHANGED <<mode, error, batchEntries, heap, batchCodes, isGenerating,
                   hasNewEntries, uploadedItemsCount, run, encoderCalls,
                   runStart, built, events, uploadVars, zipVars, text,
                   contentType, fnVars>>

\* Variant whose catch clause leaves the busy flag as it is.
SingleEncoderRejectStaysBusy ==
    /\ single.pc \in {"toCanvas", "toDataURL"}
    /\ error' = SingleError.failed
    /\ isGeneratingSingle' = isGeneratingSingle
    /\ single' = CallEnded("rejected")
    /\ UNCHANGED <<mode, qrCodeUrl, batchEntries, heap, batchCodes,
                   isGenerating, hasNewEntries, uploadedItemsCount, run,
                   encoderCalls, runStart, built, events, uploadVars, zipVars,
                   text, contentType, fnVars>>

\* Either call of the encoder rejects: the catch clause (lines 1073-1077).
SingleEncoderReject ==
    /\ single.pc \in {"toCanvas", "toDataURL"}
    /\ error' = SingleError.failed
    /\ isGeneratingSingle' = FALSE
    /\ single' = CallEnded("rejected")
    /\ UNCHANGED <<mode, qrCodeUrl, batchEntries, heap, batchCodes,
                   isGenerating, hasNewEntries, uploadedItemsCount, run,
                   encoderCalls, runStart, built, events, uploadVars, zipVars,
                   text, contentType, fnVars>>

(***************************************************************************)
(* The component: its state after the first render, and its events.        *)
(***************************************************************************)
\* Nothing is being uploaded or downloaded.
NoZip == [pc |-> "idle"]

NoTransfer ==
    /\ isUploading = FALSE
    /\ reader = NoReader
    /\ fileFormat = "png"
    /\ useContentAsFilename = FALSE
    /\ isDownloadingZip = FALSE
    /\ zip = NoZip

NoOutput == [op |-> "none"]

Init ==
    /\ mode = "single"
    /\ error = NoError
    /\ qrCodeUrl = NoUrl
    /\ batchEntries = <<1>>
    /\ heap = [ref \in Refs |-> BlankEntry]
    /\ batchCodes = << >>
    /\ isGenerating = FALSE
    /\ hasNewEntries = TRUE
    /\ uploadedItemsCount = NoUploads
    /\ run = NoRun
    /\ encoderCalls = {}
    /\ runStart = NoRunStart
    /\ built = << >>
    /\ events = 0
    /\ NoTransfer
    /\ NoSingle
    /\ fnRaw = << >>
    /\ fnKind = "text"
    /\ fnOut = NoOutput

\* The events of the component: the user's (the inputs of the entry list
\* call updateBatchEntry for the content field only, line 1788) and the
\* encoder settling a call.
Next ==
    \/ \E newMode \in Modes : toggleMode(newMode)
    \/ addBatchEntry
    \/ \E index \in 1..MaxEntries : removeBatchEntry(index)
    \/ \E index \in 1..MaxEntries : \E value \in TypedContents :
           updateBatchEntry(index, "content", value)
    \/ generateBatchQRCodes
    \/ resetBatchQR
    \/ EncoderResolve
    \/ EncoderReject

Spec == Init /\ [][Next]_vars

(***************************************************************************)
(* The pure functions on their own: formatContentByType (lines 1014-1040)  *)
(* and detectContentType (lines 1475-1499) applied to texts made of the    *)
(* fragments their patterns look for.                                      *)
(***************************************************************************)
\* Pieces of URLs, e-mail addresses and scheme prefixes.
UrlFrags ==
    { <<"h", "t", "t", "p", ":", "/", "/">>,
      <<"h", "t", "t", "p", "s", ":", "/", "/">>,
      <<"H", "t", "T", "p", "S", ":", "/", "/">>,
      <<"h", "t", "t", "p", ":", "/">>,
      <<"w", "w", "w", ".">>,
      <<"W", "W", "W", ".">>,
      <<"a">>,
      <<"a", "@", "b", ".", "c">>,
      <<"{", "s", "s", "i", "d", "@", "b", ".", "c", "}">>,
      <<"m", "a", "i", "l", "t", "o", ":">>,
      <<"t", "e", "l", ":">>,
      <<"s", "m", "s", ":">>,
      <<" ">>}

\* Pieces of phone numbers: runs of 7, 8 and 13 digits, punctuation.
PhoneFrags ==
    { <<"+">>,
      <<"1", "2", "3", "4", "5", "6", "7">>,
      <<"1", "2", "3", "4", "5", "6", "7", "8">>,
      <<"1", "2", "3", "4", "5", "6", "7", "8", "9", "0", "1", "2", "3">>,
      <<"(", "5", ")", "-">>,
      <<" ">>,
      <<"a">>}

\* Pieces of JSON texts.
JsonFrags ==
    { <<"{">>,
      <<"}">>,
      <<"[">>,
      <<"]">>,
      <<"n", "u", "l", "l">>,
      <<"t", "r", "u", "e">>,
      <<"1">>,
      <<"0">>,
      <<"-">>,
      <<"\"", "x", "\"">>,
      <<",">>,
      <<" ">>,
      <<":">>,
      <<"\"", "s", "s", "i", "d", "\"">>,
      <<"n", "o", "t", " ", "j", "s", "o", "n">>}

\* The texts of the values a field of a Wi-Fi document is given: strings,
\* numbers, literals, an array and an object.
JsonFieldTexts ==
    { <<"\"", "N", "\"">>,
      <<"\"", "\"">>,
      <<"0">>,
      <<"1", "2", ".", "5", "0">>,
      <<"1", "e", "2", "1">>,
      <<"n", "u", "l", "l">>,
      <<"f", "a", "l", "s", "e">>,
      <<"t", "r", "u", "e">>,
      <<"[", "1", ",", "n", "u", "l", "l", "]">>,
      <<"{", "}">>}

\* A field's value text, or that the document has no such field.
Absent == <<"a", "b", "s", "e", "n", "t">>

\* "key":literal, or nothing for an absent field.
JsonMember(key, literal) ==
    IF literal = Absent THEN << >> ELSE <<<<"\"">> \o key \o <<"\"", ":">> \o literal>>

RECURSIVE JoinWith(_, _)
\* The texts of parts with sep between them.
JoinWith(parts, sep) ==
    IF parts = << >> THEN << >>
    ELSE IF Len(parts) = 1 THEN parts[1]
    ELSE parts[1] \o sep \o JoinWith(Tail(parts), sep)

\* The JSON objects with some of the fields encryption, ssid and password.
JsonDocs ==
    {<<"{">> \o JoinWith(JsonMember(KeyEncryption, e) \o JsonMember(KeySsid, s)
                             \o JsonMember(KeyPassword, p), <<",">>) \o <<"}">> :
        e \in JsonFieldTexts \cup {Absent},
        s \in JsonFieldTexts \cup {Absent},
        p \in {<<"\"", "P", "\"">>, <<"7">>, Absent}}

\* The texts of at most MaxFrags fragments of one family.
Texts(frags) ==
    UNION {{Concat(fs) : fs \in [1..n -> frags]} : n \in 0..MaxFrags}

FnInputs == Texts(UrlFrags) \cup Texts(PhoneFrags) \cup Texts(JsonFrags) \cup JsonDocs

FnKinds == ContentTypes \cup {UnknownType}

InitFn ==
    /\ mode = "single"
    /\ error = NoError
    /\ qrCodeUrl = NoUrl
    /\ batchEntries = <<1>>
    /\ heap = [ref \in Refs |-> BlankEntry]
    /\ batchCodes = << >>
    /\ isGenerating = FALSE
    /\ hasNewEntries = TRUE
    /\ uploadedItemsCount = NoUploads
    /\ run = NoRun
    /\ encoderCalls = {}
    /\ runStart = NoRunStart
    /\ built = << >>
    /\ events = 0
    /\ NoTransfer
    /\ NoSingle
    /\ fnRaw \in FnInputs
    /\ fnKind \in FnKinds
    /\ fnOut = NoOutput

\* formatContentByType(fnRaw, fnKind)
ApplyFormat ==
    /\ fnOut = NoOutput
    /\ fnOut' = [op |-> "format", arg |-> fnRaw,
                 result |-> formatContentByType(fnRaw, fnKind)]
    /\ UNCHANGED <<componentVars, fnRaw, fnKind>>

\* formatContentByType(formatContentByType(fnRaw, fnKind), fnKind)
ApplyFormatAgain ==
    /\ fnOut.op = "format"
    /\ ~fnOut.result.threw
    /\ fnOut' = [op |-> "again", arg |-> fnOut.result.value,
                 result |-> formatContentByType(fnOut.result.value, fnKind)]
    /\ UNCHANGED <<componentVars, fnRaw, fnKind>>

\* detectContentType(fnRaw)
ApplyDetect ==
    /\ fnOut = NoOutput
    /\ fnOut' = [op |-> "detect", arg |-> fnRaw,
                 result |-> Return(detectContentType(fnRaw))]
    /\ UNCHANGED <<componentVars, fnRaw, fnKind>>

\* The payload the loop of generateBatchQRCodes builds (lines 1263-1271)
\* for an entry { content: fnRaw, type: fnKind } in a batch mode.
ApplyPayload ==
    /\ fnOut = NoOutput
    /\ fnKind \in ContentTypes
    /\ \E m \in BatchModes :
           fnOut' = [op |-> "payload", arg |-> fnRaw, mode |-> m,
                     result |-> BuildPayload(m, [content |-> fnRaw,
                                                 type |-> fnKind])]
    /\ UNCHANGED <<componentVars, fnRaw, fnKind>>

NextFn == ApplyFormat \/ ApplyFormatAgain \/ ApplyDetect \/ ApplyPayload

FnSpec == InitFn /\ [][NextFn]_vars

(***************************************************************************)
(* Properties of the formatter and the detector, checked under FnSpec.     *)
(***************************************************************************)
\* s starts with http:// or https://, compared in lower case.
HasHttpPrefix(s) ==
    \/ Len(s) >= 7 /\ SubSeq(Lowered(s), 1, 7) = HttpScheme
    \/ Len(s) >= 8 /\ SubSeq(Lowered(s), 1, 8) = HttpsScheme

\* C2: formatContentByType(s, 'url') returns s unchanged when s starts with
\* http:// or https:// in any letter case, and "https://" followed by s for
\* every other s, the empty string and a string starting with www. included.
C2_UrlGetsHttpsUnlessSchemed ==
    (fnOut.op = "format" /\ fnKind = "url") =>
        fnOut.result = Return(IF HasHttpPrefix(fnRaw) THEN fnRaw
                              ELSE HttpsScheme \o fnRaw)

\* C2 witness: a URL with its scheme in mixed case came back unchanged.
C2_Witness ==
    /\ fnOut.op = "format"
    /\ fnKind = "url"
    /\ fnRaw = <<"H", "t", "T", "p", "S", ":", "/", "/", "a">>
    /\ fnOut.result = Return(fnRaw)

\* The scheme formatContentByType puts before an e-mail address, a phone
\* number and an SMS number.
SchemeOf(kind) ==
    CASE kind = "email" -> MailtoScheme
      [] kind = "phone" -> TelScheme
      [] kind = "sms"   -> SmsScheme

\* C3: for the kinds email, phone and sms formatContentByType puts mailto:,
\* tel: and sms: before every raw string, also one that begins with that
\* scheme, so applying it twice yields the prefix twice.
C3_PrefixUnconditional ==
    fnKind \in {"email", "phone", "sms"} =>
        /\ fnOut.op = "format" =>
               fnOut.result = Return(SchemeOf(fnKind) \o fnRaw)
        /\ fnOut.op = "again" =>
               fnOut.result = Return(SchemeOf(fnKind) \o SchemeOf(fnKind) \o fnRaw)

\* C3 witness: an address that began with mailto: was formatted twice.
C3_Witness ==
    /\ fnOut.op = "again"
    /\ fnKind = "email"
    /\ fnRaw = MailtoScheme \o <<"a">>
    /\ fnOut.result = Return(MailtoScheme \o MailtoScheme \o MailtoScheme \o <<"a">>)

\* What C4 says of a parsed text: the Wi-Fi payload of the fields of a JSON
\* object, the raw text for anything else.
WifiAsClaimed(parsed, raw) ==
    IF parsed.ok /\ parsed.val.t = "obj"
    THEN WifiPayload(OrElse(GetProperty(parsed.val, KeyEncryption), WpaDefault),
                     OrElse(GetProperty(parsed.val, KeySsid), << >>),
                     OrElse(GetProperty(parsed.val, KeyPassword), << >>))
    ELSE raw

IsString(v) ==
    /\ DOMAIN v = 1..Len(v)
    /\ \A i \in 1..Len(v) : v[i] \in STRING

\* C5: formatContentByType is total: for every raw string and every kind it
\* returns a string and never raises, also when a Wi-Fi text parses to a
\* JSON value that is not an object, such as null; for the kind text and
\* for an unrecognised kind it returns raw unchanged.
C5_FormatterTotal ==
    fnOut.op \in {"format", "again"} =>
        /\ ~fnOut.result.threw
        /\ IsString(fnOut.result.value)
        /\ fnKind \notin {"url", "email", "phone", "sms", "wifi"} =>
               fnOut.result.value = fnOut.arg

\* C5 witness: the Wi-Fi text null, whose fields cannot be read, came back
\* unchanged.
C5_Witness ==
    /\ fnOut.op = "format"
    /\ fnKind = "wifi"
    /\ fnRaw = <<"n", "u", "l", "l">>
    /\ fnOut.result = Return(fnRaw)

\* C6: detectContentType applies its checks in the order url, email, phone,
\* wifi, text and returns the first that matches: a text starting with
\* http://, https:// or www. is url even if it has the e-mail or Wi-Fi
\* shape, an e-mail-shaped text is email even if it has the Wi-Fi shape, and
\* a text matching none is text.
C6_DetectFirstMatch ==
    fnOut.op = "detect" =>
        /\ LooksLikeUrl(fnRaw) => fnOut.result.value = "url"
        /\ (~LooksLikeUrl(fnRaw) /\ LooksLikeEmail(fnRaw)) =>
               fnOut.result.value = "email"
        /\ (~LooksLikeUrl(fnRaw) /\ ~LooksLikeEmail(fnRaw)
              /\ LooksLikePhone(fnRaw)) => fnOut.result.value = "phone"
        /\ (~LooksLikeUrl(fnRaw) /\ ~LooksLikeEmail(fnRaw)
              /\ ~LooksLikePhone(fnRaw) /\ LooksLikeWifi(fnRaw)) =>
               fnOut.result.value = "wifi"
        /\ (~LooksLikeUrl(fnRaw) /\ ~LooksLikeEmail(fnRaw)
              /\ ~LooksLikePhone(fnRaw) /\ ~LooksLikeWifi(fnRaw)) =>
               fnOut.result.value = "text"

\* C6 witness: a text with the url and the e-mail shape was detected as url.
C6_Witness ==
    /\ fnOut.op = "detect"
    /\ fnRaw = WwwDot \o <<"a", "@", "b", ".", "c">>
    /\ LooksLikeEmail(fnRaw)
    /\ fnOut.result.value = "url"

\* C7: in yandex-ultima mode the payload of an entry is the fixed template
\* followed by the entry's content as it is, neither trimmed nor escaped;
\* formatContentByType is not applied and the entry's type does not matter.
C7_PromoPayloadVerbatim ==
    (fnOut.op = "payload" /\ fnOut.mode = "yandex-ultima") =>
        fnOut.result = Return(PromoTemplate \o fnRaw)

\* C7 witness: the payload of a promo entry of type url whose content has
\* white space around it and no scheme.
C7_Witness ==
    /\ fnOut.op = "payload"
    /\ fnOut.mode = "yandex-ultima"
    /\ fnKind = "url"
    /\ fnRaw = <<" ", "a">>
    /\ fnOut.result = Return(PromoTemplate \o <<" ", "a">>)

(***************************************************************************)
(* Properties of the batch run, checked under Spec.                        *)
(***************************************************************************)
\* The payload the loop builds from what it read of an entry.
PayloadBuiltFrom(b) ==
    IF b.mode = "yandex-ultima" THEN PromoTemplate \o b.content
    ELSE formatContentByType(b.content, b.type).value

RunStores == runStart.outcome = "running" /\ runStart'.outcome = "stored"

\* A step in which the run in flight fails on an encoder call that threw.
RunRejected == runStart.outcome = "running" /\ runStart'.outcome = "rejected"

\* A step of the run in flight after which it is still in flight.
RunAdvances == run.pc = "awaiting" /\ run'.pc = "awaiting" /\ run' # run

NonBlank(entry) == Trim(entry.content) # << >>

\* The content and type of each code of a sequence.
ContentAndType(codes) ==
    [k \in 1..Len(codes) |-> [content |-> codes[k].content, type |-> codes[k].type]]

\* C8: after a successful batch run batchCodes is exactly the codes of the
\* entries whose trimmed content is non-empty, in the order of batchEntries,
\* each with the entry's content and type (the entries taken as they were
\* when the run started, or as they are when it ends); blank entries give
\* no code and the codes of earlier runs are not kept.
C8_CodesAreTheNonBlankEntries ==
    [][RunStores =>
           \/ ContentAndType(batchCodes') = SelectSeq(runStart.entries, NonBlank)
           \/ ContentAndType(batchCodes')
                  = SelectSeq(Values(run.entries, heap), NonBlank)]_vars

C10_OneCallAtATime ==
    /\ Cardinality(encoderCalls) <= 1
    /\ \A call \in encoderCalls :
           /\ run.pc = "awaiting"
           /\ call.i = run.i
           /\ Len(run.batchResults) = Len(run.built) - 1

\* C10 witness: the call of the second entry is outstanding and the code of
\* the first is pushed.
C10_Witness ==
    \E call \in encoderCalls :
        /\ call.i = 2
        /\ Len(run.batchResults) = 1

(***************************************************************************)
(* Uploads: the component with one file on the user's disk, which the      *)
(* user may upload any number of times in either batch mode.               *)
(***************************************************************************)
\* The k-th line of a text file: blank (empty, or white space only) or
\* not (an address with white space around it, or one letter).
LineAt(k, nonBlank) ==
    IF nonBlank
    THEN (IF k % 2 = 1 THEN <<" ", "a", "@", "b", ".", "c", "\t">> ELSE <<"b">>)
    ELSE (IF k % 2 = 1 THEN << >> ELSE <<" ", "\t">>)

\* The line separator after the k-th line: both conventions occur.
SepAt(k) == IF k % 2 = 1 THEN <<"\n">> ELSE <<"\r", "\n">>

\* The text of a file of these lines.
TextOf(lines) ==
    Concat([k \in 1..Len(lines) |->
               IF k < Len(lines) THEN lines[k] \o SepAt(k) ELSE lines[k]])

LineLists ==
    UNION {{[k \in 1..n |-> LineAt(k, pattern[k])] : pattern \in [1..n -> BOOLEAN]}
           : n \in 0..MaxLines}

TxtNames ==
    <<<<"n", "o", "t", "e", "s", ".", "v", "2", ".", "t", "x", "t">>,
      <<"F", ".", "T", "X", "T">>>>

SheetNames ==
    <<<<"f", ".", "x", "l", "s", "x">>, <<"f", ".", "X", "L", "S">>>>

OtherNames == {<<"f", ".", "c", "s", "v">>, <<"f">>, <<"t", "x", "t", ".", "p", "d", "f">>}

\* A file: its name, its text and the lines the text was written from (a
\* text file), the rows sheet_to_json makes of its first sheet (a
\* spreadsheet), and whether XLSX.read throws on it.
File(name, lines, rows, corrupt) ==
    [name |-> name, text |-> TextOf(lines), lines |-> lines, rows |-> rows,
     corrupt |-> corrupt]

\* The number 0 and the number 12.5 as cells.
CellZero == JNum(FALSE, <<"0">>, << >>, 0)

CellNumber == JNum(FALSE, <<"1", "2">>, <<"5">>, 0)

\* The rows of a sheet: an empty row, a row with an empty first cell, a
\* first cell of white space only, of text with white space around it, of
\* the number 0 and of another number.
RowKinds ==
    {<< >>,
     <<JUndefined, JStr(<<"b">>)>>,
     <<JStr(<<" ">>)>>,
     <<JStr(<<" ", "w", "w", "w", ".", "a", " ">>), JStr(<<"x">>)>>,
     <<CellZero>>,
     <<CellNumber>>}

Sheets == UNION {[1..n -> RowKinds] : n \in 0..MaxRows}

UploadFiles ==
    {File(TxtNames[(Len(lines) % 2) + 1], lines, << >>, FALSE) : lines \in LineLists}
    \cup {File(SheetNames[(Len(rows) % 2) + 1], << >>, rows, FALSE) : rows \in Sheets}
    \cup {File(SheetNames[k], << >>, <<<<JStr(<<"b">>)>>>>, TRUE) : k \in 1..2}
    \cup {File(name, <<<<"b">>>>, << >>, FALSE) : name \in OtherNames}

InitUpload ==
    /\ mode = "single"
    /\ error = NoError
    /\ qrCodeUrl = NoUrl
    /\ batchEntries = <<1>>
    /\ heap = [ref \in Refs |-> BlankEntry]
    /\ batchCodes = << >>
    /\ isGenerating = FALSE
    /\ hasNewEntries = TRUE
    /\ uploadedItemsCount = NoUploads
    /\ run = NoRun
    /\ encoderCalls = {}
    /\ runStart = NoRunStart
    /\ built = << >>
    /\ events = 0
    /\ NoTransfer
    /\ NoSingle
    /\ fnRaw \in UploadFiles
    /\ fnKind = "text"
    /\ fnOut = NoOutput

NextUpload ==
    \/ \E newMode \in Modes : toggleMode(newMode)
    \/ handleFileUpload(fnRaw)
    \/ FileReaderLoad
    \/ FileReaderError

UploadSpec == InitUpload /\ [][NextUpload]_vars

(***************************************************************************)
(* Properties of uploads.                                                  *)
(***************************************************************************)
\* A line with a character that is not white space.
NonBlankLine(line) == \E i \in 1..Len(line) : line[i] \notin WhiteSpace

\* The uploaded-items count of a mode.
CountOf(count, m) == IF m = "batch" THEN count.batch ELSE count.yandex

\* The FileReader in flight delivers what it read of a text file or of a
\* spreadsheet in this step.
ReadEnds(as) ==
    /\ reader.pc = "reading"
    /\ reader.as = as
    /\ reader'.pc = "idle"
    /\ error' \notin {UploadError.readingFile, UploadError.readingExcel}

\* Text entries of these contents.
TextEntries(contents) ==
    [i \in 1..Len(contents) |-> [content |-> contents[i], type |-> "text"]]

NonBlankCellRow(row) ==
    /\ Len(row) > 0
    /\ row[1].t # "undefined"
    /\ NonBlankLine(TemplateString(row[1]))

\* C12: when the reader delivers a spreadsheet XLSX.read can read, with a
\* row whose first cell is not blank, batchEntries becomes one text entry
\* per such row, in row order, of the trimmed string form of the cell (the
\* number 0 included); and no entry an upload stores has empty content.
C12_SheetUploadKeepsNonBlankCells ==
    [][(ReadEnds("excel") /\ ~reader.file.corrupt)
       => LET kept == SelectSeq(reader.file.rows, NonBlankCellRow)
          IN  /\ kept # << >>
                 => Values(batchEntries', heap')
                        = TextEntries([i \in 1..Len(kept) |->
                                          Trim(TemplateString(kept[i][1]))])
              /\ batchEntries' # batchEntries
                 => \A i \in 1..Len(batchEntries') :
                        heap'[batchEntries'[i]].content # << >>]_vars

\* C13: the entries an upload stores have the type detectContentType finds
\* in their content, as the file format guide says (line 1759).
C13_UploadedTypeIsDetected ==
    [][(reader.pc = "reading" /\ reader'.pc = "idle"
        /\ batchEntries' # batchEntries)
       => \A i \in 1..Len(batchEntries') :
              heap'[batchEntries'[i]].type
                  = detectContentType(heap'[batchEntries'[i]].content)]_vars

\* The file has an extension handleFileUpload does not read.
UnsupportedFile(file) ==
    FileExtension(file.name) \notin {Extension.txt, Extension.xlsx, Extension.xls}

\* The file being read has no non-blank line, or no row with a non-blank
\* first cell.
EmptySource ==
    IF reader.as = "text"
    THEN \A k \in 1..Len(reader.file.lines) : ~NonBlankLine(reader.file.lines[k])
    ELSE /\ ~reader.file.corrupt
         /\ \A k \in 1..Len(reader.file.rows) : ~NonBlankCellRow(reader.file.rows[k])

\* C14: an upload of a file with an unsupported extension, and the reader
\* delivering a file without a non-blank line or row, set an error message,
\* leave batchEntries and the uploaded-items count as they were, and leave
\* isUploading false.
C14_FailedUploadChangesNothing ==
    [][((handleFileUpload(fnRaw) /\ UnsupportedFile(fnRaw))
        \/ (FileReaderLoad /\ EmptySource))
       => /\ error' # NoError
          /\ batchEntries' = batchEntries
          /\ Values(batchEntries', heap') = Values(batchEntries, heap)
          /\ uploadedItemsCount' = uploadedItemsCount
          /\ isUploading' = FALSE]_vars

(***************************************************************************)
(* convertCanvasToEPS on the canvases of up to MaxPixels pixels.            *)
(***************************************************************************)
\* The alpha values of a pixel: transparent, the threshold, opaque.
Alphas == {0, AlphaThreshold, 255}

\* The bytes of an image of these alphas: black pixels, row by row.
PixelData(alphas) ==
    [i \in 1..(4 * Len(alphas)) |-> IF i % 4 = 0 THEN alphas[i \div 4] ELSE 0]

Canvases ==
    UNION {{[width |-> w, height |-> h, data |-> PixelData(alphas), context |-> c]
            : alphas \in [1..(w * h) -> Alphas], c \in BOOLEAN}
           : <<w, h>> \in {size \in (1..MaxPixels) \X (1..MaxPixels) :
                               size[1] * size[2] <= MaxPixels}}

InitEps ==
    /\ mode = "single"
    /\ error = NoError
    /\ qrCodeUrl = NoUrl
    /\ batchEntries = <<1>>
    /\ heap = [ref \in Refs |-> BlankEntry]
    /\ batchCodes = << >>
    /\ isGenerating = FALSE
    /\ hasNewEntries = TRUE
    /\ uploadedItemsCount = NoUploads
    /\ run = NoRun
    /\ encoderCalls = {}
    /\ runStart = NoRunStart
    /\ built = << >>
    /\ events = 0
    /\ NoTransfer
    /\ NoSingle
    /\ fnRaw \in Canvases
    /\ fnKind = "text"
    /\ fnOut = NoOutput

\* convertCanvasToEPS(fnRaw)
ApplyEps ==
    /\ fnOut = NoOutput
    /\ fnOut' = [op |-> "eps", arg |-> fnRaw, result |-> convertCanvasToEPS(fnRaw)]
    /\ UNCHANGED <<componentVars, fnRaw, fnKind>>

\* convertCanvasToEPS(fnRaw), once more
ApplyEpsAgain ==
    /\ fnOut # NoOutput
    /\ fnOut.op = "eps"
    /\ fnOut' = [op |-> "eps again", arg |-> fnRaw, first |-> fnOut.result,
                 result |-> convertCanvasToEPS(fnRaw)]
    /\ UNCHANGED <<componentVars, fnRaw, fnKind>>

NextEps == ApplyEps \/ ApplyEpsAgain

EpsSpec == InitEps /\ [][NextEps]_vars

(***************************************************************************)
(* Properties of convertCanvasToEPS.                                       *)
(***************************************************************************)
\* The pieces of a string between the occurrences of a character.
RECURSIVE SplitOn(_, _)
SplitOn(s, c) ==
    IF \E i \in 1..Len(s) : s[i] = c
    THEN LET at == CHOOSE i \in 1..Len(s) :
                       s[i] = c /\ \A j \in 1..(i - 1) : s[j] # c
         IN  <<SubSeq(s, 1, at - 1)>> \o SplitOn(SubSeq(s, at + 1, Len(s)), c)
    ELSE <<s>>

IsNumeral(s) == s # << >> /\ \A i \in 1..Len(s) : IsDigit(s[i])

\* A line "<x> <y> scanline" of the output.
IsEmission(line) ==
    LET tokens == SplitOn(line, " ")
    IN  /\ Len(tokens) = 3
        /\ IsNumeral(tokens[1])
        /\ IsNumeral(tokens[2])
        /\ tokens[3] = <<"s", "c", "a", "n", "l", "i", "n", "e">>

\* The coordinates the emissions of an output draw at, in output order.
Emissions(output) ==
    LET lines == SelectSeq(SplitOn(output, "\n"), IsEmission)
    IN  [k \in 1..Len(lines) |->
            <<StringToNat(SplitOn(lines[k], " ")[1]),
              StringToNat(SplitOn(lines[k], " ")[2])>>]

\* The alpha of the p-th pixel of a canvas in raster order, from 1.
PixelAlpha(canvas, p) == canvas.data[4 * p]

\* The pixels of a canvas with an alpha above 128, in raster order.
DarkPixels(canvas) ==
    SelectSeq([p \in 1..(canvas.width * canvas.height) |-> p],
              LAMBDA p : PixelAlpha(canvas, p) > 128)

\* convertCanvasToEPS has returned a text.
EpsReturned == fnOut.op \in {"eps", "eps again"} /\ ~fnOut.result.threw

\* C15: the output has as many scanline emissions as the canvas has pixels
\* with an alpha above 128, and its second line gives the bounding box
\* 0 0 <width> <height>.
C15_OneScanlinePerOpaquePixel ==
    EpsReturned
    => /\ Len(Emissions(fnOut.result.value)) = Len(DarkPixels(fnOut.arg))
       /\ SplitOn(fnOut.result.value, "\n")[2]
              = <<"%", "%", "B", "o", "u", "n", "d", "i", "n", "g", "B", "o",
                  "x", ":", " ", "0", " ", "0", " ">>
                \o NatToString(fnOut.arg.width) \o <<" ">>
                \o NatToString(fnOut.arg.height)

\* C15: a fully opaque 2x2 canvas has given 4 emissions and the bounding
\* box 0 0 2 2.
C15_Witness ==
    /\ EpsReturned
    /\ fnOut.arg.width = 2
    /\ fnOut.arg.height = 2
    /\ \A p \in 1..4 : PixelAlpha(fnOut.arg, p) = 255
    /\ Len(Emissions(fnOut.result.value)) = 4
    /\ SplitOn(fnOut.result.value, "\n")[2]
           = <<"%", "%", "B", "o", "u", "n", "d", "i", "n", "g", "B", "o", "x",
               ":", " ", "0", " ", "0", " ", "2", " ", "2">>

\* C16: the emissions are those of the dark pixels in raster order (row 0
\* first, x ascending), the pixel (x, y) drawn at (x, height - y); every
\* coordinate has 0 <= x < width and 1 <= y <= height; and converting the
\* same canvas again gives the same text.
C16_RasterOrderFlipped ==
    EpsReturned
    => LET canvas == fnOut.arg
           dark   == DarkPixels(canvas)
           drawn  == Emissions(fnOut.result.value)
       IN  /\ drawn = [k \in 1..Len(dark) |->
                          <<(dark[k] - 1) % canvas.width,
                            canvas.height - ((dark[k] - 1) \div canvas.width)>>]
           /\ \A k \in 1..Len(drawn) :
                  /\ drawn[k][1] \in 0..(canvas.width - 1)
                  /\ drawn[k][2] \in 1..canvas.height
           /\ fnOut.op = "eps again" => fnOut.result = fnOut.first

\* C16: a canvas of two rows with a transparent pixel and dark pixels in
\* both rows has been converted twice.
C16_Witness ==
    /\ EpsReturned
    /\ fnOut.op = "eps again"
    /\ fnOut.arg.width = 2
    /\ fnOut.arg.height = 2
    /\ PixelAlpha(fnOut.arg, 1) = 0
    /\ Len(Emissions(fnOut.result.value)) = 3

(***************************************************************************)
(* Downloads: the component after a batch run has stored its codes.        *)
(***************************************************************************)
\* Contents of the entries of the batch: one letter in either case, texts
\* that differ in one character that is not a letter or digit, and a text
\* longer than a stem.
ZipContents ==
    {<<"b">>, <<"B">>, <<"a", " ", "b">>, <<"a", "_", "b">>,
     Repeat("x", StemLength) \o <<"Y">>}

\* The canvases an image is decoded into: one dark pixel, a transparent
\* and a dark pixel, and a canvas without a 2d context.
ZipCanvases ==
    {[width |-> 1, height |-> 1, data |-> PixelData(<<255>>), context |-> TRUE],
     [width |-> 2, height |-> 1, data |-> PixelData(<<0, 255>>), context |-> TRUE],
     [width |-> 1, height |-> 1, data |-> PixelData(<<255>>), context |-> FALSE]}

\* The code a run in mode m stores for a text entry of this content.
StoredCode(m, content) ==
    PushedCode([content |-> content, type |-> "text"],
               [payload |-> BuildPayload(m, [content |-> content, type |-> "text"]).value])

\* The state after the user has entered or uploaded these contents in mode
\* m and a run has stored their codes; the format and the naming option
\* are as an earlier use of the page left them.
InitZip ==
    \E m \in BatchModes : \E n \in 1..MaxCodes : \E contents \in [1..n -> ZipContents] :
        /\ mode = m
        /\ error = NoError
        /\ qrCodeUrl = NoUrl
        /\ batchEntries = [i \in 1..n |-> i]
        /\ heap = [ref \in Refs |->
                      IF ref <= n THEN [content |-> contents[ref], type |-> "text"]
                      ELSE BlankEntry]
        /\ batchCodes = [i \in 1..n |-> StoredCode(m, contents[i])]
        /\ isGenerating = FALSE
        /\ hasNewEntries = FALSE
        /\ uploadedItemsCount = NoUploads
        /\ run = NoRun
        /\ encoderCalls = {}
        /\ runStart = RunEnded("stored", 0)
        /\ built = [i \in 1..n |-> [mode |-> m, content |-> contents[i],
                                    type |-> "text"]]
        /\ events = 0
        /\ isUploading = FALSE
        /\ reader = NoReader
        /\ fileFormat \in FileFormats
        /\ useContentAsFilename \in BOOLEAN
        /\ isDownloadingZip = FALSE
        /\ zip = NoZip
        /\ NoSingle
        /\ fnRaw = << >>
        /\ fnKind = "text"
        /\ fnOut = NoOutput

NextZip ==
    \/ \E format \in FileFormats : setFileFormat(format)
    \/ \E checked \in BOOLEAN : setUseContentAsFilename(checked)
    \/ downloadAllQRCodesAsZip
    \/ \E canvas \in ZipCanvases : ImageLoaded(canvas)
    \/ ImageError
    \/ ZipGenerated
    \/ ZipRejected

ZipSpec == InitZip /\ [][NextZip]_vars

(***************************************************************************)
(* Properties of the archive.                                              *)
(***************************************************************************)
\* The call of downloadAllQRCodesAsZip has added the files of all its codes.
AllAdded == zip.pc \in {"generate", "saved"}

\* The call names its files after the content of a code.
NamedByContent == zip.byContent \/ zip.mode = "yandex-ultima"

\* The text of the k-th code of the call its file is named after.
NameSource(k) ==
    IF NamedByContent THEN zip.codes[k].content ELSE zip.codes[k].formattedContent

\* What follows the stem in the file names of the call.
NameSuffix(k) ==
    (IF NamedByContent THEN << >> ELSE <<"_">> \o NameChars[zip.codes[k].type])
    \o <<".">> \o NameChars[zip.format]

\* The name of a file without what follows the stem (all codes of the
\* model have the type text, so all names of a call have one suffix).
StemOf(name) == SubSeq(name, 1, Len(name) - Len(NameSuffix(1)))

LowerOrDigit(c) == IsDigit(c) \/ \E i \in 1..Len(LowerChars) : LowerChars[i] = c

\* C17 as stated: every stem has only characters of a-z and 0-9 and at
\* most 30 of them, and each code has a file whose stem is its source text
\* without the other characters, in lower case, cut to 30 characters.
C17_StemStripsOtherCharacters ==
    AllAdded
    => /\ \A f \in zip.files :
              /\ Len(StemOf(f.name)) <= 30
              /\ \A i \in 1..Len(StemOf(f.name)) : LowerOrDigit(StemOf(f.name)[i])
       /\ \A k \in 1..Len(zip.codes) :
              \E f \in zip.files :
                  LET kept == SelectSeq(NameSource(k), IsAlphaNumeric)
                  IN  StemOf(f.name)
                          = [i \in 1..(IF Len(kept) < 30 THEN Len(kept) ELSE 30) |->
                                LowerChar(kept[i])]

\* C17, amended: every stem has only characters of a-z, 0-9 and "_" and at
\* most 30 of them, and each code has a file whose stem is the first 30
\* characters of its source text, each letter in lower case and each
\* character that is neither a letter nor a digit replaced by "_".
C17_StemReplacesOtherCharacters ==
    AllAdded
    => /\ \A f \in zip.files :
              /\ Len(StemOf(f.name)) <= 30
              /\ \A i \in 1..Len(StemOf(f.name)) :
                     LowerOrDigit(StemOf(f.name)[i]) \/ StemOf(f.name)[i] = "_"
       /\ \A k \in 1..Len(zip.codes) :
              \E f \in zip.files :
                  /\ Len(StemOf(f.name))
                         = (IF Len(NameSource(k)) < 30 THEN Len(NameSource(k)) ELSE 30)
                  /\ \A i \in 1..Len(StemOf(f.name)) :
                         StemOf(f.name)[i]
                             = (IF IsAlphaNumeric(NameSource(k)[i])
                                THEN LowerChar(NameSource(k)[i]) ELSE "_")

\* C17: an archive has been saved with a stem made of a text with a
\* space, and a stem cut to 30 characters.
C17_Witness ==
    /\ zip.pc = "saved"
    /\ \E k \in 1..Len(zip.codes) :
           /\ NameSource(k) = <<"a", " ", "b">>
           /\ \E f \in zip.files : StemOf(f.name) = <<"a", "_", "b">>
    /\ \E k \in 1..Len(zip.codes) :
           /\ Len(NameSource(k)) > 30
           /\ \E f \in zip.files : StemOf(f.name) = Repeat("x", 30)

\* The file name C18 gives the k-th code of the call, from the naming
\* option, the mode and the format the call started with.
ClaimedName(k) ==
    IF zip.byContent \/ zip.mode = "yandex-ultima"
    THEN Sanitize(zip.codes[k].content) \o <<".">> \o NameChars[zip.format]
    ELSE Sanitize(zip.codes[k].formattedContent) \o <<"_">>
         \o NameChars[zip.codes[k].type] \o <<".">> \o NameChars[zip.format]

\* C18: once the files of all codes are added, the archive's file names
\* are those of the codes: sanitize(content).format when the naming option
\* is set or the mode is yandex-ultima, sanitize(formattedContent)_type.format
\* otherwise, whatever the position of the code.
C18_FilenameSelection ==
    AllAdded
    => /\ \A k \in 1..Len(zip.codes) : \E f \in zip.files : f.name = ClaimedName(k)
       /\ \A f \in zip.files : \E k \in 1..Len(zip.codes) : f.name = ClaimedName(k)

\* C18: an EPS archive named by formatted content and type has been saved
\* in the batch mode, with a second code of another content.
C18_Witness ==
    /\ zip.pc = "saved"
    /\ zip.mode = "batch"
    /\ ~zip.byContent
    /\ Len(zip.codes) = 2
    /\ zip.codes[1].content = <<"B">>
    /\ zip.codes[2].content = <<"a", " ", "b">>
    /\ \E f \in zip.files :
           f.name = <<"a", "_", "b", "_", "t", "e", "x", "t", ".", "e", "p", "s">>
    /\ Cardinality(zip.files) = 2

\* Two codes of the call were given the same file name.
NamesCollide(z) ==
    \E j, k \in 1..Len(z.added) : j < k /\ z.added[j].name = z.added[k].name

\* C19: once the files of all codes are added, if the raw contents of the
\* codes are pairwise distinct then so are their file names, and the archive
\* has as many files as there are codes.
C19_OneFilePerCode ==
    (AllAdded /\ \A j, k \in 1..Len(zip.codes) :
                     j # k => zip.codes[j].content # zip.codes[k].content)
    => /\ ~NamesCollide(zip)
       /\ Cardinality(zip.files) = Len(zip.codes)

\* C20: when the step that adds the last file of a call leaves two codes
\* with the same file name, the call has not failed and the error message
\* is as it was; the archive holds, under each name, one file, with the
\* data of the last code given that name; and it has fewer files than the
\* call has codes.
C20_CollisionOverwrites ==
    [][(zip' # zip /\ zip'.pc = "generate" /\ NamesCollide(zip'))
       => /\ error' = error
          /\ \A k \in 1..Len(zip'.added) :
                 LET same == {f \in zip'.files : f.name = zip'.added[k].name}
                     last == CHOOSE l \in k..Len(zip'.added) :
                                 /\ zip'.added[l].name = zip'.added[k].name
                                 /\ \A later \in (l + 1)..Len(zip'.added) :
                                        zip'.added[later].name # zip'.added[k].name
                 IN  /\ Cardinality(same) = 1
                     /\ \A f \in same : f.data = zip'.added[last].data
          /\ Cardinality(zip'.files) < Len(zip'.codes)]_vars

\* C20: an archive has been saved for two codes of different contents and
\* data with one file name; it holds the second code's data only.
C20_Witness ==
    /\ zip.pc = "saved"
    /\ error = NoError
    /\ Len(zip.added) = 2
    /\ zip.added[1].name = zip.added[2].name
    /\ zip.added[1].data # zip.added[2].data
    /\ zip.codes[1].content # zip.codes[2].content
    /\ zip.files = {zip.added[2]}

\* The name the call gives the file of its k-th code (lines 1348-1367).
CallName(z, k) == Filename(z.codes[k], z.byContent, z.mode, z.format)

\* C21: a call with the PNG format has given zip.file, for each of its
\* codes in the order of batchCodes, the code's file name and the bytes of
\* the code's image, unchanged.  A call with the EPS format works on one
\* code at a time: while it waits for the image of code i, the files of
\* exactly the i - 1 codes before it have been added, and the step that
\* ends the wait adds, under the file name of code i, the text that
\* convertCanvasToEPS returns for the canvas the image was drawn on.
C21_FilesByFormat ==
    [][/\ (zip'.pc # "idle" /\ zip'.format = "png")
          => /\ Len(zip'.added) = Len(zip'.codes)
             /\ \A k \in 1..Len(zip'.codes) :
                    /\ zip'.added[k].name = CallName(zip', k)
                    /\ zip'.added[k].data = [png |-> zip'.codes[k].dataUrl.png]
       /\ (zip'.pc = "image") => Len(zip'.added) = zip'.i - 1
       /\ (zip.pc = "image" /\ zip'.pc \in {"image", "generate"} /\ zip' # zip)
          => /\ zip'.format = "eps"
             /\ Len(zip'.added) = zip.i
             /\ SubSeq(zip'.added, 1, zip.i - 1) = zip.added
             /\ zip'.added[zip.i].name = CallName(zip, zip.i)
             /\ \E canvas \in ZipCanvases :
                    /\ ~convertCanvasToEPS(canvas).threw
                    /\ zip'.added[zip.i].data
                           = [eps |-> convertCanvasToEPS(canvas).value]
             /\ zip'.pc = "generate" <=> zip.i = Len(zip.codes)]_vars

\* C21: an archive of two codes has been saved in the EPS format, the
\* second file added after the first.
C21_Witness ==
    /\ zip.pc = "saved"
    /\ zip.format = "eps"
    /\ Len(zip.codes) = 2
    /\ Len(zip.added) = 2
    /\ zip.added[1].name = CallName(zip, 1)
    /\ zip.added[2].name = CallName(zip, 2)

(***************************************************************************)
(* Properties of the stored codes and of the entry list, checked under     *)
(* Spec.                                                                   *)
(***************************************************************************)
\* C25: the codes of batchCodes are not written once stored: a step that
\* leaves batchCodes non-empty and is not a run storing its results (so
\* every addBatchEntry, removeBatchEntry and updateBatchEntry) leaves
\* batchCodes as it is, the content, type, formattedContent and image of
\* every code included.
C25_StoredCodesAreNotWritten ==
    [][(batchCodes # << >> /\ batchCodes' # << >> /\ ~RunStores)
       => /\ batchCodes' = batchCodes
          /\ \A k \in 1..Len(batchCodes) :
                 /\ batchCodes'[k].content = batchCodes[k].content
                 /\ batchCodes'[k].type = batchCodes[k].type
                 /\ batchCodes'[k].formattedContent = batchCodes[k].formattedContent
                 /\ batchCodes'[k].dataUrl = batchCodes[k].dataUrl]_vars

\* C25 witness: a run has stored a code of an entry that was not written
\* during the run; the entry has been edited since and is still in the
\* list, and the code has the content the run read.
C25_Witness ==
    /\ runStart.outcome = "stored"
    /\ run = NoRun
    /\ hasNewEntries
    /\ Len(batchCodes) = 1
    /\ Len(batchEntries) = 1
    /\ batchCodes[1].content = built[1].content
    /\ heap[batchEntries[1]].content # batchCodes[1].content
    /\ Trim(heap[batchEntries[1]].content) # << >>

\* C27: the codes a run stores are those of the entries as they were when
\* the run started: one code for each entry that was non-blank then, with
\* that entry's content and the payload built from it under the run's mode,
\* whatever was edited or removed while the run was in flight.
C27_RunEncodesEntriesAtStart ==
    [][RunStores =>
           LET atStart == SelectSeq(runStart.entries, NonBlank)
           IN  /\ Len(batchCodes') = Len(atStart)
               /\ \A k \in 1..Len(atStart) :
                      /\ batchCodes'[k].content = atStart[k].content
                      /\ batchCodes'[k].formattedContent
                             = BuildPayload(run.mode, atStart[k]).value]_vars

\* C28: a run that toggleMode or resetBatchQR found in flight does not
\* store its results: a run stores codes only under the mode it started
\* in, so that every code of batchCodes was built under the current mode.
C28_CodesAreOfTheCurrentMode ==
    /\ Len(built) = Len(batchCodes)
    /\ \A k \in 1..Len(batchCodes) : built[k].mode = mode

\* C29: in a batch mode, whenever no run is in flight, batchCodes is empty
\* and some entry of the list is non-blank, hasNewEntries holds, so that
\* the button of the entry list runs generateBatchQRCodes.
C29_GenerateIsOffered ==
    (/\ mode \in BatchModes
     /\ ~isGenerating
     /\ batchCodes = << >>
     /\ \E k \in 1..Len(batchEntries) : NonBlank(heap[batchEntries[k]]))
    => hasNewEntries

(***************************************************************************)
(* Generation: the single mode, and a batch run of one entry.              *)
(***************************************************************************)
\* What the user types into the textarea: nothing, white space only, and
\* texts of each shape the detector knows, some with white space around.
SingleTexts ==
    {<< >>, <<" ">>, <<" ", "b">>,
     <<"a", "@", "b", ".", "c">>,
     WwwDot \o <<"a", "@", "b", ".", "c">>,
     <<"+", "1", "2", "3", " ", "4", "5", "6", "7", "8">>,
     <<"{", "s", "s", "i", "d", "}">>}

NextSingle ==
    \/ \E newMode \in Modes : toggleMode(newMode)
    \/ \E inputValue \in SingleTexts : handleTextChange(inputValue)
    \/ resetSingleQR
    \/ generateQRCode
    \/ ToCanvasResolve
    \/ ToDataURLResolve
    \/ SingleEncoderReject
    \/ \E value \in {<< >>, <<" ">>, <<"b">>} : updateBatchEntry(1, "content", value)
    \/ generateBatchQRCodes
    \/ EncoderResolve
    \/ EncoderReject

SingleSpec == Init /\ [][NextSingle]_vars

(***************************************************************************)
(* The entry list with its runs and an upload.                             *)
(***************************************************************************)
\* The file the user has at hand: a text file of two lines, or a workbook
\* XLSX.read throws on.
AppFiles ==
    {File(TxtNames[1], <<LineAt(1, TRUE), LineAt(2, TRUE)>>, << >>, FALSE),
     File(SheetNames[1], << >>, <<<<JStr(<<"b">>)>>>>, TRUE)}

\* What the user types, into the first entry, in this specification:
\* nothing, or a letter.
AppTexts == {<< >>, <<"b">>}

InitList ==
    /\ mode = "single"
    /\ error = NoError
    /\ qrCodeUrl = NoUrl
    /\ batchEntries = <<1>>
    /\ heap = [ref \in Refs |-> BlankEntry]
    /\ batchCodes = << >>
    /\ isGenerating = FALSE
    /\ hasNewEntries = TRUE
    /\ uploadedItemsCount = NoUploads
    /\ run = NoRun
    /\ encoderCalls = {}
    /\ runStart = NoRunStart
    /\ built = << >>
    /\ events = 0
    /\ NoTransfer
    /\ NoSingle
    /\ fnRaw \in AppFiles
    /\ fnKind = "text"
    /\ fnOut = NoOutput

NextList ==
    \/ \E newMode \in Modes : toggleMode(newMode)
    \/ addBatchEntry
    \/ \E index \in 1..MaxEntries : removeBatchEntry(index)
    \/ \E value \in AppTexts : updateBatchEntry(1, "content", value)
    \/ generateBatchQRCodes
    \/ resetBatchQR
    \/ EncoderResolve
    \/ EncoderReject
    \/ handleFileUpload(fnRaw)
    \/ FileReaderLoad
    \/ FileReaderError

ListSpec == InitList /\ [][NextList]_vars

(***************************************************************************)
(* The four asynchronous operations together: generateQRCode, a batch run, *)
(* an upload and the archive.                                              *)
(***************************************************************************)
\* The file the user has at hand: a text file of one line, or a workbook
\* XLSX.read throws on.
SettleFiles ==
    {File(TxtNames[1], <<LineAt(2, TRUE)>>, << >>, FALSE),
     File(SheetNames[1], << >>, <<<<JStr(<<"b">>)>>>>, TRUE)}

\* What an image of the archive build is drawn on: a canvas of one opaque
\* pixel, or one without a 2d context.
SettleCanvases == {canvas \in ZipCanvases : canvas.width = 1}

\* The state after the user has typed b in the single mode.
TypedScene ==
    /\ mode = "single"
    /\ batchEntries = <<1>>
    /\ heap = [ref \in Refs |-> BlankEntry]
    /\ batchCodes = << >>
    /\ hasNewEntries = TRUE
    /\ runStart = NoRunStart
    /\ built = << >>
    /\ fileFormat = "png"

\* The state after the user has then switched to the mode m, entered b
\* there and a run has stored its code; the entry has been typed over
\* since and the format is png or eps.
StoredScene(m) ==
    /\ mode = m
    /\ batchEntries = <<1>>
    /\ heap = [ref \in Refs |->
                  IF ref = 1 THEN [content |-> <<"b">>, type |-> "text"]
                  ELSE BlankEntry]
    /\ batchCodes = <<StoredCode(m, <<"b">>)>>
    /\ hasNewEntries = TRUE
    /\ runStart = RunEnded("stored", 0)
    /\ built = <<[mode |-> m, content |-> <<"b">>, type |-> "text"]>>
    /\ fileFormat \in FileFormats

\* One of these states, no operation in flight, and a file at hand.
InitSettle ==
    /\ TypedScene \/ \E m \in BatchModes : StoredScene(m)
    /\ error = NoError
    /\ qrCodeUrl = NoUrl
    /\ isGenerating = FALSE
    /\ uploadedItemsCount = NoUploads
    /\ run = NoRun
    /\ encoderCalls = {}
    /\ events = 0
    /\ isUploading = FALSE
    /\ reader = NoReader
    /\ useContentAsFilename = FALSE
    /\ isDownloadingZip = FALSE
    /\ zip = NoZip
    /\ text = <<"b">>
    /\ contentType = detectContentType(<<"b">>)
    /\ isGeneratingSingle = FALSE
    /\ single = NoCall
    /\ fnRaw \in SettleFiles
    /\ fnKind = "text"
    /\ fnOut = NoOutput

\* The user starts operations; the calls they wait for settle.
NextSettle ==
    \/ generateQRCode
    \/ ToCanvasResolve
    \/ ToDataURLResolve
    \/ SingleEncoderReject
    \/ generateBatchQRCodes
    \/ EncoderResolve
    \/ EncoderReject
    \/ handleFileUpload(fnRaw)
    \/ FileReaderLoad
    \/ FileReaderError
    \/ downloadAllQRCodesAsZip
    \/ \E canvas \in SettleCanvases : ImageLoaded(canvas)
    \/ ImageError
    \/ ZipGenerated
    \/ ZipRejected

SettleSpec == InitSettle /\ [][NextSettle]_vars

\* The calls the operations wait for settle: the encoder's of
\* generateQRCode and of a run, the FileReader's, the image loads and the
\* packer's.  A promise or a reader that is pending stays so until it
\* settles, and nothing in the component cancels one.
SettleFair ==
    /\ WF_vars(ToCanvasResolve \/ ToDataURLResolve \/ SingleEncoderReject)
    /\ WF_vars(EncoderResolve \/ EncoderReject)
    /\ WF_vars(FileReaderLoad \/ FileReaderError)
    /\ WF_vars((\E canvas \in SettleCanvases : ImageLoaded(canvas)) \/ ImageError)
    /\ WF_vars(ZipGenerated \/ ZipRejected)

SettleLive == SettleSpec /\ SettleFair

(***************************************************************************)
(* Properties of the four operations, checked under SettleLive.            *)
(***************************************************************************)
\* The messages an upload can end with.
UploadErrors == {UploadError[k] : k \in DOMAIN UploadError}

\* C23: a failure of an external call ends its operation with the
\* operation's error message and the busy flag false: a rejected encoder
\* call of generateQRCode, a rejected encoder call of a run, a FileReader
\* error or a workbook XLSX.read throws on, and a failed image load, EPS
\* conversion or zip.generateAsync.  And each busy flag that is true is
\* eventually false.
C23_FailuresCaughtFlagsReset ==
    /\ [][/\ (single.pc # "idle" /\ single'.pc = "idle"
              /\ single'.outcome = "rejected")
             => error' = SingleError.failed /\ ~isGeneratingSingle'
          /\ (RunRejected \/ (runStart.outcome = "running"
                              /\ runStart'.outcome = "failed"))
             => error' = ErrBatchFailed /\ ~isGenerating'
          /\ (reader.pc = "reading" /\ reader'.pc = "idle")
             => /\ ~isUploading'
                /\ (error' # error \/ (reader.as = "excel" /\ reader.file.corrupt))
                   => error' \in UploadErrors
          /\ (zip.pc \in {"image", "generate"} /\ zip'.pc = "failed")
             => error' = ErrZipFailed /\ ~isDownloadingZip']_vars
    /\ isGeneratingSingle ~> ~isGeneratingSingle
    /\ isGenerating ~> ~isGenerating
    /\ isUploading ~> ~isUploading
    /\ isDownloadingZip ~> ~isDownloadingZip

\* C23 witness: an archive build and a run have failed and then the upload
\* of a workbook XLSX.read throws on: its message is shown and no busy flag
\* is left true.
C23_Witness ==
    /\ zip.pc = "failed"
    /\ runStart.outcome = "rejected"
    /\ error = UploadError.readExcel
    /\ reader = NoReader
    /\ ~isGenerating
    /\ ~isUploading
    /\ ~isDownloadingZip

(***************************************************************************)
(* Properties of generation, checked under SingleSpec.                     *)
(***************************************************************************)
\* C26: while the text is written by handleTextChange and resetSingleQR,
\* whenever the text is non-blank after trimming contentType is
\* detectContentType(text); and a step that makes the text empty or white
\* space only leaves contentType as it was.
C26_TypeFollowsText ==
    [][/\ Trim(text') # << >> => contentType' = detectContentType(text')
       /\ (text' # text /\ Trim(text') = << >>)
          => contentType' = contentType]_vars

\* C26 witness: an address was typed, then white space only: the type is
\* still email.
C26_Witness ==
    /\ mode = "single"
    /\ text = <<" ">>
    /\ contentType = "email"

\* No entry of the list has content besides white space.
NoBatchContent ==
    \A k \in 1..Len(batchEntries) : ~NonBlank(heap[batchEntries[k]])

\* C22: generation without content does not start.  The step that answers
\* with 'Please enter content for at least one QR code' or with 'Please
\* enter some content' leaves batchCodes, qrCodeUrl, the busy flags, the
\* encoder calls and the calls in flight as they were; a run starts, and
\* isGenerating becomes true, only when some entry is non-blank, and while
\* none is and no run is in flight no encoder call is made; a call of
\* generateQRCode starts, and isGeneratingSingle becomes true, only when the
\* text is not empty.
C22_NoContentNoStart ==
    [][/\ (events' # events /\ error' \in {ErrNoContent, SingleError.empty})
          => /\ batchCodes' = batchCodes
             /\ qrCodeUrl' = qrCodeUrl
             /\ encoderCalls' = encoderCalls
             /\ run' = run
             /\ single' = single
             /\ isGenerating' = isGenerating
             /\ isGeneratingSingle' = isGeneratingSingle
       /\ (events' # events /\ error' = ErrNoContent /\ error # ErrNoContent)
          => NoBatchContent
       /\ (events' # events /\ error' = SingleError.empty
           /\ error # SingleError.empty)
          => text = << >>
       /\ ((run.pc = "idle" /\ run'.pc # "idle") \/ (~isGenerating /\ isGenerating'))
          => ~NoBatchContent
       /\ (run.pc = "idle" /\ NoBatchContent)
          => encoderCalls' = encoderCalls /\ run'.pc = "idle"
       /\ ((single.pc = "idle" /\ single'.pc # "idle")
           \/ (~isGeneratingSingle /\ isGeneratingSingle'))
          => text # << >>
       /\ (single.pc = "idle" /\ text = << >>)
          => single'.pc = "idle" /\ ~isGeneratingSingle']_vars

\* C22 witness: with the image of an earlier text on the page and the
\* textarea emptied, Generate was clicked: the message is shown, the image
\* is still there and nothing is in flight.
C22_Witness ==
    /\ mode = "single"
    /\ text = << >>
    /\ error = SingleError.empty
    /\ qrCodeUrl # NoUrl
    /\ single.pc = "idle"
    /\ ~isGeneratingSingle
    /\ encoderCalls = {}

(***************************************************************************)
(* Properties of the entry list, checked under ListSpec.                   *)
(***************************************************************************)
\* C24: while a run is in flight no upload starts or completes, the
\* entries of batchEntries are neither replaced nor written, and
\* batchCodes is written by the run only, when it ends.
C24_RunIsNotInterleaved ==
    [][run.pc # "idle"
       => /\ reader' = reader
          /\ batchEntries' = batchEntries
          /\ Values(batchEntries', heap') = Values(batchEntries, heap)
          /\ batchCodes' # batchCodes => run'.pc = "idle"]_vars

\* C30: batchEntries always holds at least one entry, in particular in the
\* batch and yandex-ultima modes; a step of the user that changes the mode
\* to one of these or empties batchCodes (toggleMode, resetBatchQR) leaves
\* exactly one entry, blank and of type text, and a step that stores an
\* upload leaves at least one entry and counts it.
C30_ListIsNeverEmpty ==
    [][/\ Len(batchEntries') >= 1
       /\ (/\ mode' \in BatchModes
           /\ events' # events
           /\ mode' # mode \/ (batchCodes # << >> /\ batchCodes' = << >>))
          => Values(batchEntries', heap') = <<BlankEntry>>
       /\ (reader.pc = "reading" /\ reader'.pc = "idle"
           /\ batchEntries' # batchEntries)
          => /\ Len(batchEntries') >= 1
             /\ uploadedItemsCount' # NoUploads]_vars

\* C30 witness: an upload of two lines was stored and one of its entries
\* removed; the entry that is left cannot be removed.
C30_Witness ==
    /\ mode \in BatchModes
    /\ Len(batchEntries) = 1
    /\ uploadedItemsCount # NoUploads
    /\ reader = NoReader
    /\ NonBlank(heap[batchEntries[1]])
    /\ \A index \in 1..MaxEntries : ~ENABLED removeBatchEntry(index)

=============================================================================
